---- MODULE Spec2Model ----
(***************************************************************************)
(* Model of the undo/redo history engine (class MapLayoutHistory), of the  *)
(* grid it mutates (MapLayout.cells), of the edit menu operations that     *)
(* drive it, and of the pointer dispatcher (class CollisionManager).       *)
(*                                                                         *)
(* JavaScript objects are modelled by a heap: a cell slot and a swap       *)
(* entry's was/became side hold a reference (0 is null), so that two       *)
(* places holding the same object is visible in the state.  Attribute      *)
(* values are strings; "undefined" and "null" stand for the JavaScript     *)
(* values of those names.                                                  *)
(***************************************************************************)
EXTENDS Integers, Sequences, FiniteSets, TLC

\* ---------------------------------------------------------------- bounds
NumCells == 2          \* x*y of the layout the engine is constructed with
MaxLog == 3            \* commits are explored while the log is shorter
MaxBatch == 2          \* longest index array passed to a batched commit
MaxCalls == 4          \* steps the caller takes in one run
MaxReplay == 7         \* steps of a run that clears slots and sets types in batches
MaxCoord == 1          \* largest pointer coordinate
MaxSide == 1           \* largest width and height of a region
MaxRegions == 2        \* longest region list registered
MaxListeners == 1      \* listeners added per event type
MaxEvents == 5         \* operations of the dispatcher in one run
MaxButton == 2         \* largest MouseEvent.button of a run with several buttons
MaxElements == 3       \* most top-level elements of an edit menu
MaxLeaves == 2         \* most elements of a group
MaxApplied == 1        \* calls of applyToMap in one run of the edit menu

\* ---------------------------------------------------------------- values
UNDEF == "undefined"
NULL == "null"
NullRef == 0

CellType == {"seat", "aisle"}
NameString == {"A1"}
\* the names generateSeatLabels gives: "1", "2", ...
Label(n) == ToString(n)
LabelString == {Label(n) : n \in 1 .. NumCells}
\* the attributes the callers of the engine change
PureCellKey == {"type", "name"}
\* a CellStyleOverride: no property, or a background colour
NoStyle == "{}"
StyleOverride == {NoStyle, "{backgroundColor}"}

\* PureCell: the record a slot holds; name and styleOverride are optional
\* (UNDEF when absent)
PureCell == [type : CellType, name : NameString \cup LabelString \cup {UNDEF, NULL},
             styleOverride : StyleOverride \cup {UNDEF}]
\* value of an empty slot (Cell = PureCell | null)
NullCell == [type |-> NULL, name |-> NULL, styleOverride |-> NULL]
\* a heap location that holds no object
Free == [type |-> "free", name |-> "free", styleOverride |-> "free"]

Idx == 0 .. (NumCells - 1)
\* the first index past the end of the grid, and the slots a call can name
Beyond == NumCells
Slots == Idx \cup {Beyond}
\* an element of the array that was never assigned: it reads as undefined
Hole == -1
UndefCell == [type |-> UNDEF, name |-> UNDEF, styleOverride |-> UNDEF]
MaxRef == NumCells + 2 * MaxBatch * MaxLog + MaxBatch + 2
Ref == 1 .. MaxRef

Min(S) == CHOOSE m \in S : \A q \in S : m <= q

RECURSIVE SeqRange(_)
SeqRange(s) == IF s = << >> THEN {} ELSE {Head(s)} \cup SeqRange(Tail(s))

\* index arrays of a selection: 1..MaxBatch slots in increasing order
IndexArrays ==
    {s \in UNION {[1 .. n -> Idx] : n \in 1 .. MaxBatch} :
        \A k \in 1 .. (Len(s) - 1) : s[k] < s[k + 1]}
\* the parallel array that holds v for every selected slot
Uniform(index, v) == [k \in 1 .. Len(index) |-> v]
\* index arrays that name the slot past the end
BeyondArrays ==
    {s \in UNION {[1 .. n -> Slots] : n \in 1 .. MaxBatch} :
        /\ \A k \in 1 .. (Len(s) - 1) : s[k] < s[k + 1]
        /\ s[Len(s)] = Beyond}
\* a parallel array one element shorter than the index array
Shorter(index, v) == [k \in 1 .. (Len(index) - 1) |-> v]
\* s[0] and the rest of a parallel array; reading past its end gives undefined
FirstCell(s) == IF s = << >> THEN UndefCell ELSE Head(s)
FirstValue(s) == IF s = << >> THEN UNDEF ELSE Head(s)
Rest(s) == IF s = << >> THEN << >> ELSE Tail(s)

VARIABLES
    cells,        \* mapLayout.cells: Slots -> reference, NullRef or Hole
    heap,         \* Ref -> the object stored there (Free when none)
    history,      \* MapLayoutHistory.history
    i,            \* MapLayoutHistory.i
    threw,        \* TRUE when the latest call ended by an exception
    callerTo,     \* the `to` object of the latest swapCell, still held by the caller
    callerIndex,  \* position in history of the entry whose index array the caller still holds
    constructed,  \* value of the grid the engine was constructed with
    script,       \* shape of the calls made so far
    calls,        \* number of steps the caller has taken
    lockedCells,  \* EditMenu.lockedCells: indexes the menu must not delete
    selectedInput, \* EditMenu.state.selectedInput: << >> for null, else <<ref>>
    input,        \* EditMenu.state.input: the property (the id of the element that
                  \* names it, NullRef for null) and the value
    collisions,            \* CollisionManager.collisions
    activeClickCollisions, \* CollisionManager.activeClickCollisions
    activeHoverCollisions, \* CollisionManager.activeHoverCollisions
    listeners,             \* number of callbacks in each list of CollisionManager.listeners
    dragStart,             \* CollisionManager.drag.start
    dragLatest,            \* CollisionManager.drag.latest
    mouseButtonsDown,      \* CollisionManager.mouseState.mouseButtonsDown
    notified,              \* the calls the listeners received from the latest operation
    gesture,               \* the latest pointer events: "down", "moved" (down, move),
                           \* "tapped" (down, up), "dragged" (down, move, up)
    events,                \* number of operations of the dispatcher so far
    dropped,               \* regions of earlier registrations that the latest one lacks
    delivered,             \* what the first drag listener was handed since the latest
                           \* mousedown, summed, and whether it was registered by then
    pressed,               \* the key of the latest keydown, if that was the latest
                           \* operation, and what state.input held when it came
    elements,              \* EditMenu.elements
    allRefs,               \* what this engine's sort makes of the addresses of elements
                           \* (of those it last sorted, once a menu builds its elements)
    lookup,                \* the latest address function called: "resolve", "next"
    asked,                 \* the address it was called with
    resolved,              \* what getInputByRef returned
    following              \* what getNextInputRef returned: << >> for null, else <<ref>>

historyVars == <<cells, heap, history, i, threw, callerTo, callerIndex, constructed, script, calls>>
menuVars == <<lockedCells, selectedInput, input>>
dispatchVars == <<collisions, activeClickCollisions, activeHoverCollisions, listeners,
                  dragStart, dragLatest, mouseButtonsDown, notified, gesture, events,
                  dropped, delivered, pressed>>
addressVars == <<elements, allRefs, lookup, asked, resolved, following>>
vars == <<historyVars, menuVars, dispatchVars, addressVars>>

\* ------------------------------------------------------------ the heap
\* the value of every slot (what JSON.stringify(cells) would show)
GridVal(cs, h) == [k \in Idx |-> IF cs[k] = NullRef THEN NullCell ELSE h[cs[k]]]

\* what cells[k] reads as, for any slot a call can name
SlotVal(cs, h, k) ==
    IF cs[k] = Hole THEN UndefCell ELSE IF cs[k] = NullRef THEN NullCell ELSE h[cs[k]]

\* cells.length: assigning past the end makes the array longer
CellsLength(cs) == IF cs[Beyond] = Hole THEN NumCells ELSE NumCells + 1

\* the location a newly created object gets
NewRef(h) == Min({r \in Ref : h[r] = Free})

\* objects referenced by the log
LogRefs(hist) == UNION {SeqRange(hist[p].was) \cup SeqRange(hist[p].became) : p \in 1 .. Len(hist)}

\* the caller's `to` object matters only while the grid or the log holds it too
Held(cs, hist, cto) ==
    IF cto # NullRef /\ cto \in ({cs[k] : k \in Slots} \cup LogRefs(hist)) THEN cto ELSE NullRef

\* objects nothing refers to any more are dropped from the heap
Collect(cs, h, hist, cto) ==
    LET live == {cs[k] : k \in Slots} \cup LogRefs(hist) \cup {Held(cs, hist, cto)}
    IN  [r \in Ref |-> IF r \in live THEN h[r] ELSE Free]

\* ------------------------------------------------------------ deepClone
\* JSON.parse(JSON.stringify(obj)) of a cell record: a property whose value
\* is undefined is not written, so it reads back as undefined
JsonObject(c) == [k \in DOMAIN c |-> IF c[k] = UNDEF THEN UNDEF ELSE c[k]]

\* inside an array JSON.stringify writes undefined as null
JsonArrayElem(v) == IF v = UNDEF THEN NULL ELSE v

\* deepClone of one Cell (given by value): a new object, or null
DeepCloneCell(h, v) ==
    IF v = NullCell
    THEN [heap |-> h, ref |-> NullRef]
    ELSE LET r == NewRef(h) IN [heap |-> [h EXCEPT ![r] = JsonObject(v)], ref |-> r]

\* inside an array JSON.stringify writes an undefined element as null
JsonArrayCell(v) == IF v = UndefCell THEN NullCell ELSE v

\* deepClone of a Cell[]
RECURSIVE DeepCloneCells(_, _)
DeepCloneCells(h, vs) ==
    IF vs = << >>
    THEN [heap |-> h, refs |-> << >>]
    ELSE LET c == DeepCloneCell(h, JsonArrayCell(Head(vs)))
             rest == DeepCloneCells(c.heap, Tail(vs))
         IN  [heap |-> rest.heap, refs |-> <<c.ref>> \o rest.refs]

\* deepClone of one attribute value: JSON.stringify(undefined) is undefined
\* and JSON.parse(undefined) throws a SyntaxError
DeepCloneThrows(v) == v = UNDEF
DeepCloneValue(v) == v

\* deepClone of an attributeContent[]
DeepCloneValues(vs) == [k \in 1 .. Len(vs) |-> JsonArrayElem(vs[k])]

\* ------------------------------------------------------ addHistoryEntry
Truncate(hist, cur) == IF Len(hist) > cur + 1 THEN SubSeq(hist, 1, cur + 1) ELSE hist

\* a push that leaves the cursor one past the new length
AddHistoryEntryPastEnd(hist, cur, entry) ==
    LET t == Truncate(hist, cur)
    IN  [history |-> Append(t, entry), i |-> Len(t) + 2]

\* the entry is pushed and the cursor set to the new length
AddHistoryEntry(hist, cur, entry) ==
    LET t == Truncate(hist, cur)
    IN  [history |-> Append(t, entry), i |-> Len(t) + 1]

\* the caller's index array is still part of the log only while its entry is
KeepCallerIndex(hist, cur, ci) == IF ci > Len(Truncate(hist, cur)) THEN 0 ELSE ci

SwapEntry(action, index, was, became) ==
    [action |-> action, index |-> index, attribute |-> "none",
     was |-> was, became |-> became, wasValue |-> << >>, becameValue |-> << >>]

AttributeEntry(action, index, attribute, was, became) ==
    [action |-> action, index |-> index, attribute |-> attribute,
     was |-> << >>, became |-> << >>, wasValue |-> was, becameValue |-> became]

\* ------------------------------------------------- the calls made so far
\* "commits": only commits so far (n of them); "undos": n commits then u
\* undos; "redos": n commits, n undos, r redos; "branch": n commits, u < n
\* undos, one more commit, then any undos and redos; "other": anything else.
\* ok: no commit of the script ended by an exception.  post: the value of
\* the grid after the latest commit of the "commits" phase.
NoGrid == [k \in Idx |-> NullCell]
Other == [phase |-> "other", n |-> 0, u |-> 0, r |-> 0, ok |-> FALSE, post |-> NoGrid]

AfterCommit(s, thrown, grid) ==
    IF s.phase = "commits" /\ s.n < MaxLog
    THEN [s EXCEPT !.n = @ + 1, !.ok = @ /\ ~thrown, !.post = grid]
    ELSE IF s.phase = "undos" /\ s.u < s.n
    THEN [s EXCEPT !.phase = "branch", !.ok = @ /\ ~thrown, !.post = NoGrid]
    ELSE Other

AfterUndo(s) ==
    IF s.phase = "commits" /\ s.n >= 1 THEN [s EXCEPT !.phase = "undos", !.u = 1]
    ELSE IF s.phase = "undos" /\ s.u < s.n THEN [s EXCEPT !.u = @ + 1]
    ELSE IF s.phase = "branch" THEN s
    ELSE Other

AfterRedo(s) ==
    IF s.phase = "undos" /\ s.u = s.n THEN [s EXCEPT !.phase = "redos", !.r = 1]
    ELSE IF s.phase = "redos" /\ s.r < s.n THEN [s EXCEPT !.r = @ + 1]
    ELSE IF s.phase = "branch" THEN s
    ELSE Other

\* ------------------------------------------------------------------ Init
\* a layout holds empty slots and cells with or without a name
Seat == [type |-> "seat", name |-> UNDEF, styleOverride |-> UNDEF]
LayoutCell == {NullCell, Seat}

\* the engine over a layout of the given cells; the k-th slot's object lives
\* at location k + 1
InitLayout(layoutCells) ==
    /\ constructed \in [Idx -> layoutCells]
    /\ cells = [k \in Slots |-> IF k = Beyond THEN Hole
                               ELSE IF constructed[k] = NullCell THEN NullRef ELSE k + 1]
    /\ heap = [r \in Ref |-> IF r - 1 \in Idx /\ constructed[r - 1] # NullCell
                             THEN constructed[r - 1] ELSE Free]
    /\ history = << >>
    /\ i = 0
    /\ threw = FALSE
    /\ callerTo = NullRef
    /\ callerIndex = 0
    /\ calls = 0
    /\ script = [phase |-> "commits", n |-> 0, u |-> 0, r |-> 0, ok |-> TRUE, post |-> constructed]

InitHistory == InitLayout(LayoutCell)

\* -------------------------------------------------------------- swapCell
\* swapCell(index, from, to): `from` is the slot's current value, `to` a new
\* object of the caller (or null), which the grid then holds itself.  When
\* the slot was never assigned `from` is undefined: deepClone(undefined)
\* throws in addHistoryEntry after the slot was written and the log truncated.
SwapCell(index, to) ==
    /\ Len(history) < MaxLog
    /\ calls' = calls + 1
    /\ LET from == SlotVal(cells, heap, index)
           toRef == IF to = NullCell THEN NullRef ELSE NewRef(heap)
           h1 == IF to = NullCell THEN heap ELSE [heap EXCEPT ![toRef] = to]
           cs1 == [cells EXCEPT ![index] = toRef]
           was == DeepCloneCell(h1, from)
           became == DeepCloneCell(was.heap, to)
           added == AddHistoryEntry(history, i,
                        SwapEntry("swappedCell", <<index>>, <<was.ref>>, <<became.ref>>))
       IN  IF from = UndefCell
           THEN /\ cells' = cs1
                /\ history' = Truncate(history, i)
                /\ heap' = Collect(cs1, h1, Truncate(history, i), toRef)
                /\ callerTo' = Held(cs1, Truncate(history, i), toRef)
                /\ callerIndex' = KeepCallerIndex(history, i, callerIndex)
                /\ threw' = TRUE
                /\ script' = Other
                /\ UNCHANGED i
           ELSE /\ cells' = cs1
                /\ history' = added.history
                /\ i' = added.i
                /\ heap' = Collect(cs1, became.heap, added.history, toRef)
                /\ callerTo' = Held(cs1, added.history, toRef)
                /\ callerIndex' = KeepCallerIndex(history, i, callerIndex)
                /\ threw' = FALSE
                /\ script' = AfterCommit(script, FALSE, GridVal(cs1, became.heap))
    /\ UNCHANGED constructed

\* ------------------------------------------------------------- swapCells
\* the loop of swapCells: slot index[k] gets a clone of to[k]; where `to`
\* has no k-th element deepClone(undefined) throws and the loop is left
RECURSIVE SwapCellsLoop(_, _, _, _)
SwapCellsLoop(cs, h, index, to) ==
    IF index = << >>
    THEN [cells |-> cs, heap |-> h, thrown |-> FALSE]
    ELSE IF FirstCell(to) = UndefCell
    THEN [cells |-> cs, heap |-> h, thrown |-> TRUE]
    ELSE LET c == DeepCloneCell(h, FirstCell(to))
         IN  SwapCellsLoop([cs EXCEPT ![Head(index)] = c.ref], c.heap, Tail(index), Rest(to))

\* swapCells(index, from, to): from[k] is the current value of slot index[k]
SwapCells(index, to) ==
    /\ Len(history) < MaxLog
    /\ calls' = calls + 1
    /\ LET from == [k \in 1 .. Len(index) |-> SlotVal(cells, heap, index[k])]
           loop == SwapCellsLoop(cells, heap, index, to)
           was == DeepCloneCells(loop.heap, from)
           became == DeepCloneCells(was.heap, to)
           added == AddHistoryEntry(history, i,
                        SwapEntry("swappedCells", index, was.refs, became.refs))
       IN  IF loop.thrown
           THEN /\ cells' = loop.cells
                /\ heap' = Collect(loop.cells, loop.heap, history, callerTo)
                /\ callerTo' = Held(loop.cells, history, callerTo)
                /\ threw' = TRUE
                /\ script' = Other
                /\ UNCHANGED <<history, i, callerIndex>>
           ELSE /\ cells' = loop.cells
                /\ history' = added.history
                /\ i' = added.i
                /\ heap' = Collect(loop.cells, became.heap, added.history, callerTo)
                /\ callerTo' = Held(loop.cells, added.history, callerTo)
                /\ callerIndex' = Len(added.history)
                /\ threw' = FALSE
                /\ script' = AfterCommit(script, FALSE, GridVal(loop.cells, became.heap))
    /\ UNCHANGED constructed

\* ------------------------------------------------------- changeAttribute
\* what a caller reads as the current value of an attribute
Current(cs, h, index, attribute) ==
    IF cs[index] \in {NullRef, Hole} THEN UNDEF ELSE h[cs[index]][attribute]

\* values a caller sets an attribute to
AttributeInput(attribute) == IF attribute = "type" THEN {"aisle"} ELSE NameString

\* changeAttribute(index, attribute, from, to), from being the current value.
\* Writing a property of null or undefined throws a TypeError before anything
\* is changed;
\* deepClone(undefined) throws in addHistoryEntry after the cell was written
\* and the log truncated, before the push.
ChangeAttribute(index, attribute, to) ==
    /\ Len(history) < MaxLog
    /\ calls' = calls + 1
    /\ LET from == Current(cells, heap, index, attribute)
           cell == cells[index]
           h1 == [heap EXCEPT ![cell][attribute] = to]
           added == AddHistoryEntry(history, i,
                        AttributeEntry("changeAttribute", <<index>>, attribute,
                                       <<DeepCloneValue(from)>>, <<DeepCloneValue(to)>>))
       IN  IF cell \in {NullRef, Hole}
           THEN /\ threw' = TRUE
                /\ script' = Other
                /\ UNCHANGED <<cells, heap, history, i, callerTo, callerIndex>>
           ELSE IF DeepCloneThrows(from) \/ DeepCloneThrows(to)
           THEN /\ threw' = TRUE
                /\ history' = Truncate(history, i)
                /\ heap' = Collect(cells, h1, Truncate(history, i), callerTo)
                /\ callerTo' = Held(cells, Truncate(history, i), callerTo)
                /\ callerIndex' = KeepCallerIndex(history, i, callerIndex)
                /\ script' = AfterCommit(script, TRUE, GridVal(cells, h1))
                /\ UNCHANGED <<cells, i>>
           ELSE /\ threw' = FALSE
                /\ history' = added.history
                /\ i' = added.i
                /\ heap' = Collect(cells, h1, added.history, callerTo)
                /\ callerTo' = Held(cells, added.history, callerTo)
                /\ callerIndex' = KeepCallerIndex(history, i, callerIndex)
                /\ script' = AfterCommit(script, FALSE, GridVal(cells, h1))
                /\ UNCHANGED cells
    /\ UNCHANGED constructed

\* ------------------------------------------------------ changeAttributes
\* the loop of changeAttributes: it writes to[k] into cell index[k] (undefined
\* where `to` has no k-th element) and is left by a TypeError at the first
\* empty or unassigned slot
RECURSIVE ChangeAttributesLoop(_, _, _, _, _)
ChangeAttributesLoop(cs, h, index, attribute, to) ==
    IF index = << >>
    THEN [heap |-> h, thrown |-> FALSE]
    ELSE IF cs[Head(index)] \in {NullRef, Hole}
    THEN [heap |-> h, thrown |-> TRUE]
    ELSE ChangeAttributesLoop(cs, [h EXCEPT ![cs[Head(index)]][attribute] = FirstValue(to)],
                              Tail(index), attribute, Rest(to))

ChangeAttributes(index, attribute, to) ==
    /\ Len(history) < MaxLog
    /\ calls' = calls + 1
    /\ LET from == [k \in 1 .. Len(index) |-> Current(cells, heap, index[k], attribute)]
           loop == ChangeAttributesLoop(cells, heap, index, attribute, to)
           added == AddHistoryEntry(history, i,
                        AttributeEntry("changeAttributes", index, attribute,
                                       DeepCloneValues(from), DeepCloneValues(to)))
       IN  IF loop.thrown
           THEN /\ threw' = TRUE
                /\ heap' = loop.heap
                /\ script' = Other
                /\ UNCHANGED <<cells, history, i, callerTo, callerIndex>>
           ELSE /\ threw' = FALSE
                /\ history' = added.history
                /\ i' = added.i
                /\ heap' = Collect(cells, loop.heap, added.history, callerTo)
                /\ callerTo' = Held(cells, added.history, callerTo)
                /\ callerIndex' = Len(added.history)
                /\ script' = AfterCommit(script, FALSE, GridVal(cells, loop.heap))
                /\ UNCHANGED cells
    /\ UNCHANGED constructed

\* ------------------------------------------------------------ undo, redo
\* the loop over a changeAttributes entry: it writes vals[k] into cell
\* index[k] and is left at the first empty or unassigned slot
RECURSIVE EntryAttributesLoop(_, _, _, _, _)
EntryAttributesLoop(cs, h, index, attribute, vals) ==
    IF index = << >>
    THEN [heap |-> h, returned |-> FALSE, unassigned |-> FALSE]
    ELSE IF cs[Head(index)] \in {NullRef, Hole}
    THEN [heap |-> h, returned |-> TRUE, unassigned |-> cs[Head(index)] = Hole]
    ELSE EntryAttributesLoop(cs, [h EXCEPT ![cs[Head(index)]][attribute] = FirstValue(vals)],
                             Tail(index), attribute, Rest(vals))

\* the loop over a swappedCells entry: slot index[k] gets the object refs[k]
RECURSIVE EntryCellsLoop(_, _, _)
EntryCellsLoop(cs, index, refs) ==
    IF index = << >>
    THEN cs
    ELSE EntryCellsLoop([cs EXCEPT ![Head(index)] = Head(refs)], Tail(index), Tail(refs))

\* the grid and the heap after writing one side of an entry; returned is
\* TRUE when the handler was left early at an empty slot, unassigned when
\* that slot reads as undefined (undo returns there, redo throws a TypeError)
Apply(cs, h, entry, refs, vals) ==
    IF entry.action = "swappedCell"
    THEN [cells |-> [cs EXCEPT ![entry.index[1]] = refs[1]], heap |-> h,
          returned |-> FALSE, unassigned |-> FALSE]
    ELSE IF entry.action = "changeAttribute"
    THEN IF cs[entry.index[1]] \in {NullRef, Hole}
         THEN [cells |-> cs, heap |-> h,
               returned |-> TRUE, unassigned |-> cs[entry.index[1]] = Hole]
         ELSE [cells |-> cs,
               heap |-> [h EXCEPT ![cs[entry.index[1]]][entry.attribute] = vals[1]],
               returned |-> FALSE, unassigned |-> FALSE]
    ELSE IF entry.action = "changeAttributes"
    THEN LET loop == EntryAttributesLoop(cs, h, entry.index, entry.attribute, vals)
         IN  [cells |-> cs, heap |-> loop.heap,
              returned |-> loop.returned, unassigned |-> loop.unassigned]
    ELSE [cells |-> EntryCellsLoop(cs, entry.index, refs), heap |-> h,
          returned |-> FALSE, unassigned |-> FALSE]

\* undo(): the cursor steps back unless it is 0, then the entry at the cursor
\* has its was side written
Undo ==
    /\ calls' = calls + 1
    /\ IF Len(history) = 0
       THEN UNCHANGED <<cells, heap, i, callerTo>>
       ELSE LET cur == IF i # 0 THEN i - 1 ELSE i
            IN  IF cur + 1 > Len(history)
                THEN /\ i' = cur
                     /\ UNCHANGED <<cells, heap, callerTo>>
                ELSE LET entry == history[cur + 1]
                         done == Apply(cells, heap, entry, entry.was, entry.wasValue)
                     IN  /\ i' = cur
                         /\ cells' = done.cells
                         /\ heap' = Collect(done.cells, done.heap, history, callerTo)
                         /\ callerTo' = Held(done.cells, history, callerTo)
    /\ threw' = FALSE
    /\ script' = AfterUndo(script)
    /\ UNCHANGED <<history, callerIndex, constructed>>

\* redo(): the entry at the cursor has its became side written, then the
\* cursor steps forward; an early return leaves the cursor
Redo ==
    /\ calls' = calls + 1
    /\ IF Len(history) = 0 \/ i + 1 > Len(history)
       THEN /\ threw' = FALSE
            /\ UNCHANGED <<cells, heap, i, callerTo>>
       ELSE LET entry == history[i + 1]
                done == Apply(cells, heap, entry, entry.became, entry.becameValue)
            IN  /\ i' = IF done.returned THEN i ELSE i + 1
                /\ cells' = done.cells
                /\ heap' = Collect(done.cells, done.heap, history, callerTo)
                /\ callerTo' = Held(done.cells, history, callerTo)
                /\ threw' = done.unassigned
    /\ script' = AfterRedo(script)
    /\ UNCHANGED <<history, callerIndex, constructed>>

\* ------------------------------------------------------------ the caller
\* the caller changes an attribute of the object it passed as `to` to swapCell
CallerMutatesTo(attribute, v) ==
    /\ callerTo # NullRef
    /\ heap[callerTo][attribute] # v
    /\ calls' = calls + 1
    /\ heap' = [heap EXCEPT ![callerTo][attribute] = v]
    /\ script' = Other
    /\ UNCHANGED <<cells, history, i, threw, callerTo, callerIndex, constructed>>

\* the caller overwrites an element of the index array it passed to
\* swapCells or changeAttributes
CallerMutatesIndex(k, index) ==
    /\ callerIndex # 0
    /\ k \in 1 .. Len(history[callerIndex].index)
    /\ history[callerIndex].index[k] # index
    /\ calls' = calls + 1
    /\ history' = [history EXCEPT ![callerIndex].index[k] = index]
    /\ script' = Other
    /\ UNCHANGED <<cells, heap, i, threw, callerTo, callerIndex, constructed>>

\* ------------------------------------------------------- the dispatcher
Coord == 0 .. MaxCoord
Point == [x : Coord, y : Coord]
Origin == [x |-> 0, y |-> 0]

\* MouseEvent.button values; MouseButtons.LEFT is data.ts's name of the first
LEFT == 0
Buttons == {LEFT}
\* the buttons of a pointer with several
ButtonIds == 0 .. MaxButton

ListenerType == {"click", "hover", "drag", "dragend"}

\* regions (Collision<ref>): squares on the diagonal of the canvas, each with
\* a reference of its own
RegionSet ==
    {[x |-> a, y |-> a, width |-> side, height |-> side,
      reference |-> side * (MaxCoord + 1) + a] :
        a \in Coord, side \in 0 .. MaxSide}
\* the lists a renderer registers: regions in the order of their references
RegionLists ==
    {cs \in UNION {[1 .. n -> RegionSet] : n \in 0 .. MaxRegions} :
        \A k \in 1 .. (Len(cs) - 1) : cs[k].reference < cs[k + 1].reference}

\* the collision hover listeners get when no region is hovered
Sentinel == [x |-> -1, y |-> -1, width |-> 0, height |-> 0, reference |-> -1]

NoCalls == [collision |-> << >>, drag |-> << >>]

\* a filter that leaves out the far edges of a region
HoverHitsExclusive(cs, offsetX, offsetY) ==
    SelectSeq(cs, LAMBDA collision :
        /\ collision.x <= offsetX
        /\ collision.x + collision.width > offsetX
        /\ collision.y <= offsetY
        /\ collision.y + collision.height > offsetY)

\* the filter of the mousemove handler
HoverHits(cs, offsetX, offsetY) ==
    SelectSeq(cs, LAMBDA collision :
        /\ collision.x <= offsetX
        /\ collision.x + collision.width >= offsetX
        /\ collision.y <= offsetY
        /\ collision.y + collision.height >= offsetY)

\* a filter that keeps only the first region that contains the point
UpHitsFirst(cs, offsetX, offsetY) ==
    LET hits == SelectSeq(cs, LAMBDA collision :
                    /\ collision.x <= offsetX
                    /\ collision.x + collision.width >= offsetX
                    /\ collision.y <= offsetY
                    /\ collision.y + collision.height >= offsetY)
    IN  IF hits = << >> THEN << >> ELSE <<Head(hits)>>

\* the filter of the mouseup handler
UpHits(cs, offsetX, offsetY) ==
    SelectSeq(cs, LAMBDA collision :
        /\ collision.x <= offsetX
        /\ collision.x + collision.width >= offsetX
        /\ collision.y <= offsetY
        /\ collision.y + collision.height >= offsetY)

\* the filter of leftClick
LeftClickHits(cs, x, y) ==
    SelectSeq(cs, LAMBDA collision :
        /\ collision.x <= x
        /\ collision.x + collision.width >= x
        /\ collision.y <= y
        /\ collision.y + collision.height >= y)

\* for (collision of hits) for (listener of list) listener(collision, buttons);
\* at is the place of the call among the calls of its handler, of which
\* earlier were made before the loop
CollisionCalls(type, hits, n, buttons, earlier) ==
    [k \in 1 .. (Len(hits) * n) |->
        [type |-> type, listener |-> ((k - 1) % n) + 1,
         collision |-> hits[((k - 1) \div n) + 1], buttons |-> buttons,
         at |-> earlier + k]]

\* for (listener of list) listener(diffX, diffY, buttons)
DragCalls(type, n, diffX, diffY, buttons, earlier) ==
    [l \in 1 .. n |-> [type |-> type, listener |-> l,
                       diffX |-> diffX, diffY |-> diffY, buttons |-> buttons,
                       at |-> earlier + l]]

\* a mousemove that tells the hover listeners nothing over empty space
MoveCallsSilent(ls, cs, latest, offsetX, offsetY, buttons) ==
    LET dragged == IF offsetX # latest.x \/ offsetY # latest.y
                   THEN DragCalls("drag", ls.drag, offsetX - latest.x,
                                  offsetY - latest.y, buttons, 0)
                   ELSE << >>
    IN  [drag |-> dragged,
         collision |-> CollisionCalls("hover", cs, ls.hover, buttons, Len(dragged))]

\* a mousemove that runs its hover loops before its drag loop
MoveCallsHoverFirst(ls, cs, latest, offsetX, offsetY, buttons) ==
    LET hovered == IF Len(cs) = 0
                   THEN CollisionCalls("hover", <<Sentinel>>, ls.hover, buttons, 0)
                   ELSE CollisionCalls("hover", cs, ls.hover, buttons, 0)
    IN  [drag |-> IF offsetX # latest.x \/ offsetY # latest.y
                  THEN DragCalls("drag", ls.drag, offsetX - latest.x,
                                 offsetY - latest.y, buttons, Len(hovered))
                  ELSE << >>,
         collision |-> hovered]

\* a mousemove whose drag loop hands over the way from the anchor of the
\* gesture, not the way from the latest position
MoveCallsFromAnchor(ls, cs, latest, offsetX, offsetY, buttons) ==
    LET dragged == IF offsetX # latest.x \/ offsetY # latest.y
                   THEN DragCalls("drag", ls.drag, offsetX - dragStart.x,
                                  offsetY - dragStart.y, buttons, 0)
                   ELSE << >>
    IN  [drag |-> dragged,
         collision |-> IF Len(cs) = 0
                       THEN CollisionCalls("hover", <<Sentinel>>, ls.hover, buttons,
                                           Len(dragged))
                       ELSE CollisionCalls("hover", cs, ls.hover, buttons, Len(dragged))]

\* the calls of the mousemove handler: the drag loop, which runs when the
\* position is not drag.latest, then the hover loop over the hovered regions cs
\* or, when there is none, the loop that hands over the sentinel
MoveCalls(ls, cs, latest, offsetX, offsetY, buttons) ==
    LET dragged == IF offsetX # latest.x \/ offsetY # latest.y
                   THEN DragCalls("drag", ls.drag, offsetX - latest.x,
                                  offsetY - latest.y, buttons, 0)
                   ELSE << >>
    IN  [drag |-> dragged,
         collision |-> IF Len(cs) = 0
                       THEN CollisionCalls("hover", <<Sentinel>>, ls.hover, buttons,
                                           Len(dragged))
                       ELSE CollisionCalls("hover", cs, ls.hover, buttons, Len(dragged))]

\* a click set that ignores where the button went down
UpClickSetAnywhere(cs, start, offsetX, offsetY) == UpHits(cs, offsetX, offsetY)

\* the regions a mouseup at (offsetX, offsetY) clicks: none unless the
\* position is drag.start
UpClickSet(cs, start, offsetX, offsetY) ==
    IF offsetX = start.x /\ offsetY = start.y THEN UpHits(cs, offsetX, offsetY) ELSE << >>

\* a release that takes the last held button off the list
ReleasedLast(down, button) ==
    IF button \in SeqRange(down) THEN SubSeq(down, 1, Len(down) - 1) ELSE down

\* indexOf and splice(buttonIndex, 1): the first occurrence is removed
RECURSIVE Released(_, _)
Released(down, button) ==
    IF down = << >> THEN << >>
    ELSE IF Head(down) = button THEN Tail(down)
    ELSE <<Head(down)>> \o Released(Tail(down), button)

InitDispatcher ==
    /\ collisions = << >>
    /\ activeClickCollisions = << >>
    /\ activeHoverCollisions = << >>
    /\ listeners = [type \in ListenerType |-> 0]
    /\ dragStart = Origin
    /\ dragLatest = Origin
    /\ mouseButtonsDown = << >>
    /\ notified = NoCalls
    /\ gesture = "idle"
    /\ events = 0
    /\ dropped = {}
    /\ delivered = [heard |-> FALSE, x |-> 0, y |-> 0]
    /\ pressed = [key |-> "none", property |-> NullRef, value |-> ""]

AddEventListener(type) ==
    /\ listeners[type] < MaxListeners
    /\ listeners' = [listeners EXCEPT ![type] = @ + 1]
    /\ notified' = NoCalls
    /\ UNCHANGED <<collisions, activeClickCollisions, activeHoverCollisions,
                   dragStart, dragLatest, mouseButtonsDown, gesture, dropped>>

\* a registration that adds to the registered regions
RegisterCollisionsAdding(cs) ==
    /\ collisions' = cs \o SelectSeq(collisions, LAMBDA c : c \notin SeqRange(cs))
    /\ dropped' = (dropped \cup SeqRange(collisions)) \ SeqRange(cs)
    /\ notified' = NoCalls
    /\ UNCHANGED <<activeClickCollisions, activeHoverCollisions, listeners,
                   dragStart, dragLatest, mouseButtonsDown, gesture>>

\* registerCollisions(collisions); dropped records what the new list leaves out
RegisterCollisions(cs) ==
    /\ collisions' = cs
    /\ dropped' = (dropped \cup SeqRange(collisions)) \ SeqRange(cs)
    /\ notified' = NoCalls
    /\ UNCHANGED <<activeClickCollisions, activeHoverCollisions, listeners,
                   dragStart, dragLatest, mouseButtonsDown, gesture>>

\* the mousedown handler
MouseDown(button, offsetX, offsetY) ==
    /\ dragLatest' = [x |-> offsetX, y |-> offsetY]
    /\ dragStart' = [x |-> offsetX, y |-> offsetY]
    /\ mouseButtonsDown' = IF button \in SeqRange(mouseButtonsDown)
                           THEN mouseButtonsDown ELSE Append(mouseButtonsDown, button)
    /\ notified' = NoCalls
    /\ gesture' = "down"
    /\ UNCHANGED <<collisions, activeClickCollisions, activeHoverCollisions, listeners,
                   dropped>>

\* the mousemove handler
MouseMove(offsetX, offsetY) ==
    LET hits == HoverHits(collisions, offsetX, offsetY)
    IN  /\ dragLatest' = [x |-> offsetX, y |-> offsetY]
        /\ activeHoverCollisions' = hits
        /\ notified' = MoveCalls(listeners, hits, dragLatest, offsetX, offsetY,
                                 mouseButtonsDown)
        /\ gesture' = IF gesture = "down" THEN "moved" ELSE "other"
        /\ UNCHANGED <<collisions, activeClickCollisions, listeners, dragStart,
                       mouseButtonsDown, dropped>>

\* a mouseup that takes the button off the held list before it calls the
\* listeners
MouseUpReleasingFirst(button, offsetX, offsetY) ==
    LET clicked == UpClickSet(collisions, dragStart, offsetX, offsetY)
        held == Released(mouseButtonsDown, button)
        clicks == CollisionCalls("click", clicked, listeners.click, held, 0)
    IN  /\ notified' =
              [collision |-> clicks,
               drag |-> IF Len(clicked) = 0
                        THEN DragCalls("dragend", listeners.dragend, offsetX - dragLatest.x,
                                       offsetY - dragLatest.y, held, Len(clicks))
                        ELSE << >>]
        /\ activeClickCollisions' = << >>
        /\ mouseButtonsDown' = held
        /\ gesture' = IF gesture = "down" THEN "tapped"
                      ELSE IF gesture = "moved" THEN "dragged" ELSE "idle"
        /\ UNCHANGED <<collisions, activeHoverCollisions, listeners, dragStart, dragLatest,
                       dropped>>

\* the mouseup handler
MouseUp(button, offsetX, offsetY) ==
    LET clicked == UpClickSet(collisions, dragStart, offsetX, offsetY)
        clicks == CollisionCalls("click", clicked, listeners.click, mouseButtonsDown, 0)
    IN  /\ notified' =
              [collision |-> clicks,
               drag |-> IF Len(clicked) = 0
                        THEN DragCalls("dragend", listeners.dragend, offsetX - dragLatest.x,
                                       offsetY - dragLatest.y, mouseButtonsDown,
                                       Len(clicks))
                        ELSE << >>]
        /\ activeClickCollisions' = << >>
        /\ mouseButtonsDown' = Released(mouseButtonsDown, button)
        /\ gesture' = IF gesture = "down" THEN "tapped"
                      ELSE IF gesture = "moved" THEN "dragged" ELSE "idle"
        /\ UNCHANGED <<collisions, activeHoverCollisions, listeners, dragStart, dragLatest,
                       dropped>>

\* a leftClick that acts as a pointer event at (x, y): it hands over the
\* held buttons and moves drag.latest
LeftClickAsPointer(x, y) ==
    LET hits == LeftClickHits(collisions, x, y)
    IN  /\ activeClickCollisions' = hits
        /\ notified' = [collision |-> CollisionCalls("click", hits, listeners.click,
                                                     mouseButtonsDown, 0),
                        drag |-> << >>]
        /\ dragLatest' = [x |-> x, y |-> y]
        /\ UNCHANGED <<collisions, activeHoverCollisions, listeners, dragStart,
                       mouseButtonsDown, gesture, dropped>>

\* leftClick(x, y)
LeftClick(x, y) ==
    LET hits == LeftClickHits(collisions, x, y)
    IN  /\ activeClickCollisions' = hits
        /\ notified' = [collision |-> CollisionCalls("click", hits, listeners.click, <<LEFT>>, 0),
                        drag |-> << >>]
        /\ UNCHANGED <<collisions, activeHoverCollisions, listeners, dragStart, dragLatest,
                       mouseButtonsDown, gesture, dropped>>

\* ------------------------------------------------------- element addresses
\* a string is the sequence of its characters
DigitChars == <<"0", "1", "2", "3", "4", "5", "6", "7", "8", "9">>
IsDigit(c) == \E d \in 1 .. Len(DigitChars) : DigitChars[d] = c

\* i.toString() of an index i >= 0
RECURSIVE IndexToString(_)
IndexToString(n) ==
    IF n < 10 THEN <<DigitChars[n + 1]>>
    ELSE IndexToString(n \div 10) \o <<DigitChars[(n % 10) + 1]>>

\* ref.endsWith(c), ref.slice(0, -1), ref.includes(c)
EndsWith(str, c) == Len(str) >= 1 /\ str[Len(str)] = c
SliceLast(str) == SubSeq(str, 1, Len(str) - 1)
Includes(str, c) == \E k \in 1 .. Len(str) : str[k] = c

\* the value of a non-empty run of digits
RECURSIVE DigitsValue(_)
DigitsValue(str) ==
    IF Len(str) = 0 THEN 0
    ELSE 10 * DigitsValue(SliceLast(str))
            + (CHOOSE d \in 0 .. 9 : DigitChars[d + 1] = str[Len(str)])

\* the longest run of digits at the start of a string
RECURSIVE LeadingDigits(_)
LeadingDigits(str) ==
    IF Len(str) = 0 \/ ~IsDigit(Head(str)) THEN << >>
    ELSE <<Head(str)>> \o LeadingDigits(Tail(str))

\* the string without the white space at its start
RECURSIVE TrimStart(_)
TrimStart(str) ==
    IF Len(str) >= 1 /\ Head(str) = " " THEN TrimStart(Tail(str)) ELSE str

\* parseInt(str): white space, a sign, then digits up to the first other
\* character; NaN when there is no digit
ParseInt(str) ==
    LET trimmed == TrimStart(str)
        signed == Len(trimmed) >= 1 /\ Head(trimmed) \in {"-", "+"}
        digits == LeadingDigits(IF signed THEN Tail(trimmed) ELSE trimmed)
    IN  IF Len(digits) = 0 THEN [nan |-> TRUE, value |-> 0]
        ELSE [nan |-> FALSE,
              value |-> IF signed /\ Head(trimmed) = "-"
                        THEN 0 - DigitsValue(digits) ELSE DigitsValue(digits)]

\* ref.match(/^(\d+)_(\d+)$/): the two runs of digits, or none
Match(str) ==
    {m \in {[first |-> SubSeq(str, 1, k - 1), second |-> SubSeq(str, k + 1, Len(str))] :
               k \in {j \in 1 .. Len(str) : str[j] = "_"}} :
        /\ Len(m.first) >= 1 /\ \A k \in 1 .. Len(m.first) : IsDigit(m.first[k])
        /\ Len(m.second) >= 1 /\ \A k \in 1 .. Len(m.second) : IsDigit(m.second[k])}

\* what parseRef returns: null, or the indices and the control symbol;
\* groupIndex NoGroup stands for groupIndex: null
NoGroup == -1
NullIndices == [isNull |-> TRUE, groupIndex |-> NoGroup, itemIndex |-> 0,
                controlSymbol |-> NULL]

parseRef(ref) ==
    LET controlled == EndsWith(ref, "-") \/ EndsWith(ref, "+")
        controlSymbol == IF controlled THEN ref[Len(ref)] ELSE NULL
        rest == IF controlled THEN SliceLast(ref) ELSE ref
    IN  IF Includes(rest, "_")
        THEN IF Match(rest) = {} THEN NullIndices
             ELSE LET match == CHOOSE m \in Match(rest) : TRUE
                  IN  [isNull |-> FALSE,
                       groupIndex |-> ParseInt(match.first).value,
                       itemIndex |-> ParseInt(match.second).value,
                       controlSymbol |-> controlSymbol]
        ELSE IF ~ParseInt(rest).nan
        THEN [isNull |-> FALSE, groupIndex |-> NoGroup,
              itemIndex |-> ParseInt(rest).value, controlSymbol |-> controlSymbol]
        ELSE NullIndices

\* an element is {type, elements}: elements is empty unless the type is
\* "group"; id tells the objects apart
ElementType == {"input", "button", "checkbox", "label", "hselect", "group"}

\* a read that counts the elements from 1
AtFromOne(array, index) ==
    IF index >= 1 /\ index <= Len(array) THEN array[index].id ELSE Hole

\* array[index]: undefined (Hole) past either end
At(array, index) ==
    IF index >= 0 /\ index < Len(array) THEN array[index + 1].id ELSE Hole

\* the trees with up to most top-level elements of the types tops, the
\* groups holding up to MaxLeaves elements of the types leaves; the element
\* at position index has the id ElementId(index), its elements the ids after
ElementTrees(tops, leaves, most) ==
    LET ElementId(index) == index * (MaxLeaves + 1) + 1
        Shapes ==
            {[type |-> t, elements |-> << >>] : t \in tops \ {"group"}}
               \cup (IF "group" \in tops
                     THEN {[type |-> "group", elements |-> ls] :
                              ls \in UNION {[1 .. n -> leaves] : n \in 0 .. MaxLeaves}}
                     ELSE {})
        Built(shapes) ==
            [k \in 1 .. Len(shapes) |->
                [id |-> ElementId(k - 1), type |-> shapes[k].type,
                 elements |-> [j \in 1 .. Len(shapes[k].elements) |->
                                  [id |-> ElementId(k - 1) + j,
                                   type |-> shapes[k].elements[j],
                                   elements |-> << >>]]]]
    IN  {Built(shapes) : shapes \in UNION {[1 .. n -> Shapes] : n \in 0 .. most}}

getInputByRef(els, ref) ==
    LET inputIndices == parseRef(ref)
    IN  IF inputIndices.isNull THEN NullRef
        ELSE IF inputIndices.groupIndex = NoGroup THEN At(els, inputIndices.itemIndex)
        ELSE LET group == At(els, inputIndices.groupIndex)
             IN  IF group = Hole \/ els[inputIndices.groupIndex + 1].type # "group"
                 THEN NullRef
                 ELSE At(els[inputIndices.groupIndex + 1].elements, inputIndices.itemIndex)

\* this.elements.filter(element => element.type === "input").map((_, i) => i.toString())
AvailableRefs(els) ==
    [k \in 1 .. Len(SelectSeq(els, LAMBDA element : element.type = "input")) |->
        IndexToString(k - 1)]

\* the addresses `${index}_${subindex}` of the elements of every group, flat
RECURSIVE GroupedRefs(_, _)
GroupedRefs(els, index) ==
    IF index >= Len(els) THEN << >>
    ELSE (IF els[index + 1].type # "group" THEN << >>
          ELSE [j \in 1 .. Len(els[index + 1].elements) |->
                   IndexToString(index) \o <<"_">> \o IndexToString(j - 1)])
         \o GroupedRefs(els, index + 1)

\* the comparator of the sort
Compare(a, b) ==
    LET aIndices == parseRef(a)
        bIndices == parseRef(b)
    IN  IF aIndices.isNull \/ bIndices.isNull THEN 0
        ELSE IF aIndices.groupIndex = NoGroup /\ bIndices.groupIndex = NoGroup
        THEN aIndices.itemIndex - bIndices.itemIndex
        ELSE IF aIndices.groupIndex = NoGroup /\ bIndices.groupIndex # NoGroup
        THEN aIndices.itemIndex - bIndices.groupIndex
        ELSE IF aIndices.groupIndex # NoGroup /\ bIndices.groupIndex = NoGroup
        THEN aIndices.groupIndex - bIndices.itemIndex
        ELSE 0

\* Array.prototype.sort(comparefn): the stable order by a consistent
\* comparator; with a comparator that is not consistent the order is
\* implementation-defined, any arrangement of the array
Consistent(array) ==
    \A a, b, c \in SeqRange(array) :
       /\ Compare(a, a) = 0
       /\ (Compare(a, b) < 0) = (Compare(b, a) > 0)
       /\ Compare(a, b) = 0 /\ Compare(b, c) = 0 => Compare(a, c) = 0
       /\ Compare(a, b) < 0 /\ Compare(b, c) < 0 => Compare(a, c) < 0
       /\ Compare(a, b) = 0 /\ Compare(b, c) < 0 => Compare(a, c) < 0
       /\ Compare(a, b) < 0 /\ Compare(b, c) = 0 => Compare(a, c) < 0
Sort(array) ==
    LET Orders == {f \in [1 .. Len(array) -> 1 .. Len(array)] :
                      \A j, k \in 1 .. Len(array) : j # k => f[j] # f[k]}
        Stable == {f \in Orders :
                      \A j, k \in 1 .. Len(array) :
                         j < k => \/ Compare(array[f[j]], array[f[k]]) < 0
                                  \/ /\ Compare(array[f[j]], array[f[k]]) = 0
                                     /\ f[j] < f[k]}
    IN  {[k \in 1 .. Len(array) |-> array[order[k]]] :
            order \in IF Consistent(array) THEN Stable ELSE Orders}

\* a loop that stops at the end of the list
NextInNoWrap(refs, ref) ==
    LET at == {k \in 1 .. Len(refs) : refs[k] = ref}
    IN  IF at = {} \/ Min(at) + 1 > Len(refs) THEN << >> ELSE <<refs[Min(at) + 1]>>

\* the loop over allRefs: the address after the first one equal to ref, the
\* first address after the last, null when none is equal
NextIn(refs, ref) ==
    LET at == {k \in 1 .. Len(refs) : refs[k] = ref}
    IN  IF at = {} THEN << >>
        ELSE IF Min(at) + 1 <= Len(refs) THEN <<refs[Min(at) + 1]>>
        ELSE <<refs[1]>>

getNextInputRef(refs, ref) ==
    IF parseRef(ref).isNull THEN << >> ELSE NextIn(refs, ref)

\* a render that numbers only the elements of a group that get a reference
RenderRefsSkippingLabels(els) ==
    LET Drawn(element, ref) ==
            IF element.type = "label" THEN {}
            ELSE IF element.type = "hselect"
            THEN {[reference |-> ref \o <<"-">>, id |-> element.id],
                  [reference |-> ref \o <<"+">>, id |-> element.id]}
            ELSE {[reference |-> ref, id |-> element.id]}
        Before(group, j) ==
            Len(SelectSeq(SubSeq(group.elements, 1, j - 1),
                          LAMBDA subelement : subelement.type # "label"))
    IN  UNION {Drawn(els[k], IndexToString(k - 1)) : k \in 1 .. Len(els)}
           \cup UNION {UNION {Drawn(els[k].elements[j],
                                    IndexToString(k - 1) \o <<"_">>
                                       \o IndexToString(Before(els[k], j))) :
                                 j \in 1 .. Len(els[k].elements)} :
                          k \in 1 .. Len(els)}

\* the references render registers, each with the element it is drawn for:
\* i.toString() for the element at i (a group's header too),
\* `${i}_${subIndex}` for the element at subIndex of the group at i when the
\* group is open (here every group is), `${ref}-` and `${ref}+` for the arrows
\* of an hselect, none for a label
RenderRefs(els) ==
    LET Drawn(element, ref) ==
            IF element.type = "label" THEN {}
            ELSE IF element.type = "hselect"
            THEN {[reference |-> ref \o <<"-">>, id |-> element.id],
                  [reference |-> ref \o <<"+">>, id |-> element.id]}
            ELSE {[reference |-> ref, id |-> element.id]}
    IN  UNION {Drawn(els[k], IndexToString(k - 1)) : k \in 1 .. Len(els)}
           \cup UNION {UNION {Drawn(els[k].elements[j],
                                    IndexToString(k - 1) \o <<"_">>
                                       \o IndexToString(j - 1)) :
                                 j \in 1 .. Len(els[k].elements)} :
                          k \in 1 .. Len(els)}

\* the addresses asked for: those of a tree of MaxElements elements and one
\* position more, with and without a control symbol, and strings that are
\* no address
Addresses ==
    {IndexToString(index) : index \in 0 .. MaxElements}
       \cup {IndexToString(index) \o <<"_">> \o IndexToString(subindex) :
                index \in 0 .. MaxElements, subindex \in 0 .. MaxLeaves}
Malformed ==
    {<< >>, <<"_">>, <<"-">>, <<"1", "_">>, <<"-", "1">>, <<"1", "a">>, <<" ", "1">>,
     <<"0", "_", "0", "_", "0">>, <<"0", "+", "+">>}
RefStrings ==
    Addresses \cup {ref \o <<"-">> : ref \in Addresses}
       \cup {ref \o <<"+">> : ref \in Addresses} \cup Malformed

InitAddressing ==
    /\ elements = << >>
    /\ allRefs = << >>
    /\ lookup = "none"
    /\ asked = << >>
    /\ resolved = NullRef
    /\ following = << >>

\* a call of getInputByRef(ref)
GetInputByRef(ref) ==
    /\ lookup' = "resolve"
    /\ asked' = ref
    /\ resolved' = getInputByRef(elements, ref)
    /\ following' = << >>
    /\ UNCHANGED <<elements, allRefs>>

\* a call of getNextInputRef(ref)
GetNextInputRef(ref) ==
    /\ lookup' = "next"
    /\ asked' = ref
    /\ following' = getNextInputRef(allRefs, ref)
    /\ resolved' = NullRef
    /\ UNCHANGED <<elements, allRefs>>

\* ---------------------------------------------------------- the edit menu
\* generateSeatLabels: the seats of the grid, in index order
RECURSIVE SeatsFrom(_, _, _)
SeatsFrom(cs, h, k) ==
    IF k >= NumCells
    THEN << >>
    ELSE (IF cs[k] \notin {NullRef, Hole} /\ h[cs[k]].type = "seat" THEN <<k>> ELSE << >>)
         \o SeatsFrom(cs, h, k + 1)

\* its loop over the seats: `cell.name = (number++).toString()` on the cell
\* object of the grid
RECURSIVE WriteLabels(_, _, _, _)
WriteLabels(cs, h, index, number) ==
    IF index = << >>
    THEN h
    ELSE WriteLabels(cs, [h EXCEPT ![cs[Head(index)]].name = Label(number)],
                     Tail(index), number + 1)

\* setNames.name: the names just written
Names(index) == [k \in 1 .. Len(index) |-> Label(k)]

\* generateSeatLabels(): after its loop it calls
\* history.changeAttributes(setNames.index, "name", setNames.name, setNames.name)
GenerateSeatLabels ==
    /\ Len(history) < MaxLog
    /\ calls' = calls + 1
    /\ LET index == SeatsFrom(cells, heap, 0)
           written == WriteLabels(cells, heap, index, 1)
           name == Names(index)
           loop == ChangeAttributesLoop(cells, written, index, "name", name)
           added == AddHistoryEntry(history, i,
                        AttributeEntry("changeAttributes", index, "name",
                                       DeepCloneValues(name), DeepCloneValues(name)))
       IN  /\ threw' = FALSE
           /\ history' = added.history
           /\ i' = added.i
           /\ heap' = Collect(cells, loop.heap, added.history, callerTo)
           /\ callerTo' = Held(cells, added.history, callerTo)
           /\ callerIndex' = KeepCallerIndex(history, i, callerIndex)
           /\ script' = Other
           /\ UNCHANGED cells
    /\ UNCHANGED constructed

\* the selection a menu operation works on: none, or some slots
Selections == IndexArrays \cup {<< >>}

\* a deleteCells that does not look at the locks
UnlockedAll(selection) == selection

\* deleteCells: the selected slots that are not locked and not undefined
Unlocked(selection) ==
    SelectSeq(selection, LAMBDA k : k \notin lockedCells /\ cells[k] # Hole)

\* this.elements as unSelectCell() builds it (for no selection) and as
\* selectCells(cellIndexes) builds it: the warning when a selected cell is
\* locked, else the two selectors, the groups and the Apply button.  One
\* group of an input, a checkbox and an input stands for the style keys.
\* Every element object has an id of its own.
MenuElements(cellIndexes) ==
    LET Leaf(id, type) == [id |-> id, type |-> type, elements |-> << >>]
    IN  IF cellIndexes = << >>
        THEN <<Leaf(11, "label"), Leaf(12, "button"), Leaf(13, "button"),
               Leaf(14, "button")>>
        ELSE IF \E k \in 1 .. Len(cellIndexes) : cellIndexes[k] \in lockedCells
        THEN <<Leaf(21, "label")>>
        ELSE <<Leaf(1, "hselect"), Leaf(2, "hselect"),
               [id |-> 3, type |-> "group",
                elements |-> <<Leaf(4, "input"), Leaf(5, "checkbox"), Leaf(6, "input")>>],
               Leaf(7, "button")>>

\* element.type of what getInputByRef returned; "none" for null and undefined
TypeOf(els, id) ==
    LET all == SeqRange(els)
                  \cup UNION {SeqRange(els[k].elements) : k \in 1 .. Len(els)}
    IN  IF \E element \in all : element.id = id
        THEN (CHOOSE element \in all : element.id = id).type
        ELSE "none"

\* deleteCells(): history.swapCells(swap.index, swap.was, swap.became) with
\* the current cells as `was` and null for every `became`; then
\* unSelectCell() and selectCells(selection), which returns early on an
\* undefined cell
DeleteCells(selection) ==
    /\ SwapCells(Unlocked(selection), Uniform(Unlocked(selection), NullCell))
    /\ selectedInput' = << >>
    /\ input' = [property |-> NullRef, value |-> ""]
    /\ elements' = IF \E k \in 1 .. Len(selection) : cells[selection[k]] = Hole
                   THEN MenuElements(<< >>)
                   ELSE MenuElements(selection)
    /\ UNCHANGED <<lockedCells, allRefs, lookup, asked, resolved, following>>

\* applyToMap() over state.selectedCells.indexes (<< >> when selectedCells
\* is null: it returns) with state.selectedType and
\* state.cellStyleChanges: every selected slot is read through JSON, which
\* throws on undefined; an empty slot gets a new cell, a cell gets the type;
\* then `cell.styleOverride.hoverOverride` is read, which throws when the
\* cell has no styleOverride, and the changes are spread over the
\* styleOverride.  history.swapCells is called after the loop.
ApplyToMap(selection, selectedType, cellStyleChanges) ==
    LET old == [k \in 1 .. Len(selection) |-> SlotVal(cells, heap, selection[k])]
        Typed(cell) == IF cell = NullCell
                       THEN [type |-> selectedType, name |-> UNDEF,
                             styleOverride |-> cellStyleChanges]
                       ELSE [cell EXCEPT !.type = selectedType]
        Spread(styleOverride) == IF cellStyleChanges = NoStyle THEN styleOverride
                                 ELSE cellStyleChanges
        newCells == [k \in 1 .. Len(selection) |->
                        [Typed(old[k]) EXCEPT !.styleOverride = Spread(@)]]
    IN  IF selection = << >>
        THEN UNCHANGED historyVars
        ELSE IF \E k \in 1 .. Len(selection) :
                   old[k] = UndefCell \/ Typed(old[k]).styleOverride = UNDEF
        THEN /\ calls' = calls + 1
             /\ threw' = TRUE
             /\ script' = Other
             /\ UNCHANGED <<cells, heap, history, i, callerTo, callerIndex, constructed>>
        ELSE SwapCells(selection, newCells)

\* selectInput(ref), ref being << >> for null: what state.selectedInput and
\* state.input are afterwards; value is cellStyleChangesByKey(element.value),
\* "" for a key that state.cellStyleChanges lacks
selectInput(ref, value) ==
    LET element == IF ref = << >> THEN NullRef ELSE getInputByRef(elements, ref[1])
    IN  IF ref = << >>
        THEN [selectedInput |-> << >>, input |-> [property |-> NullRef, value |-> ""]]
        ELSE IF TypeOf(elements, element) = "input"
        THEN [selectedInput |-> ref, input |-> [property |-> element, value |-> value]]
        ELSE [selectedInput |-> selectedInput, input |-> input]

\* an unselectInput that leaves the text that was typed
UnselectInputKeepingValue ==
    /\ selectedInput' = << >>
    /\ input' = [input EXCEPT !.property = NullRef]
    /\ UNCHANGED <<historyVars, lockedCells, addressVars>>

\* unselectInput(), also the onblur handler of the input
UnselectInput ==
    /\ selectedInput' = << >>
    /\ input' = [property |-> NullRef, value |-> ""]
    /\ UNCHANGED <<historyVars, lockedCells, addressVars>>

\* selectCells(cellIndexes); with no index it is unSelectCell()
SelectCells(cellIndexes) ==
    /\ IF cellIndexes = << >>
       THEN /\ elements' = MenuElements(<< >>)
            /\ selectedInput' = << >>
            /\ input' = [property |-> NullRef, value |-> ""]
       ELSE IF \E k \in 1 .. Len(cellIndexes) : cells[cellIndexes[k]] = Hole
       THEN UNCHANGED <<elements, selectedInput, input>>
       ELSE /\ elements' = MenuElements(cellIndexes)
            /\ UNCHANGED <<selectedInput, input>>
    /\ UNCHANGED <<historyVars, lockedCells, allRefs, lookup, asked, resolved, following>>

\* handleClickCollisions(collision) with collision.reference = reference;
\* btn_apply calls applyToMap() with what the state holds: selected cells
\* (none while the menu that unSelectCell built is up), a type, style changes
HandleClickCollisions(reference) ==
    LET el == getInputByRef(elements, reference)
        ref == parseRef(reference)
        type == TypeOf(elements, el)
    IN  /\ IF el \in {NullRef, Hole} \/ ref.isNull
           THEN UNCHANGED <<historyVars, selectedInput, input>>
           ELSE IF ref.controlSymbol # NULL
           THEN \* el.label === "hslct_edit_state": the second selector
                /\ selectedInput' = IF type = "hselect" /\ el = 2 THEN << >>
                                     ELSE selectedInput
                /\ UNCHANGED <<historyVars, input>>
           ELSE IF type = "input"
           THEN /\ selectedInput' = selectInput(<<reference>>, "").selectedInput
                /\ input' = selectInput(<<reference>>, "").input
                /\ UNCHANGED historyVars
           ELSE IF type = "button" /\ el = 7
           THEN \* btn_apply
                /\ \E selection \in IF elements = MenuElements(<< >>) THEN {<< >>}
                                     ELSE IndexArrays,
                      selectedType \in CellType, cellStyleChanges \in StyleOverride :
                      ApplyToMap(selection, selectedType, cellStyleChanges)
                /\ UNCHANGED <<selectedInput, input>>
           ELSE UNCHANGED <<historyVars, selectedInput, input>>
        /\ UNCHANGED <<lockedCells, addressVars>>

\* input.onkeydown; Enter calls applyToMap() with what the state holds
KeyDown(key) ==
    \/ /\ key = "Enter"
       /\ IF selectedInput # << >>
          THEN \E selection \in IF elements = MenuElements(<< >>) THEN {<< >>}
                                 ELSE IndexArrays,
                  selectedType \in CellType, cellStyleChanges \in StyleOverride :
                  ApplyToMap(selection, selectedType, cellStyleChanges)
          ELSE UNCHANGED historyVars
       /\ UNCHANGED <<menuVars, addressVars>>
    \/ /\ key = "Escape"
       /\ UnselectInput
    \/ /\ key = "Tab"
       /\ IF selectedInput # << >>
          THEN /\ allRefs' \in Sort(AvailableRefs(elements) \o GroupedRefs(elements, 0))
               /\ LET next == getNextInputRef(allRefs', selectedInput[1])
                  IN  /\ selectedInput' = selectInput(next, "").selectedInput
                      /\ input' = selectInput(next, "").input
          ELSE UNCHANGED <<selectedInput, input, allRefs>>
       /\ UNCHANGED <<historyVars, lockedCells, elements, lookup, asked, resolved,
                      following>>

\* handleInputChange(event) with event.target.value = value: it returns when
\* state.selectedCells is null
HandleInputChange(value) ==
    /\ input' = IF elements = MenuElements(<< >>) THEN input
                ELSE [input EXCEPT !.value = value]
    /\ UNCHANGED <<historyVars, lockedCells, selectedInput, addressVars>>

\* ------------------------------------------------------- specifications
\* the engine on its own: no menu locks a cell
Init ==
    /\ InitHistory
    /\ lockedCells = {}
    /\ selectedInput = << >>
    /\ input = [property |-> NullRef, value |-> ""]
    /\ InitDispatcher
    /\ InitAddressing

Commit ==
    \/ \E index \in Idx, to \in LayoutCell : SwapCell(index, to)
    \/ \E index \in IndexArrays, to \in LayoutCell : SwapCells(index, Uniform(index, to))
    \/ \E index \in Idx, attribute \in PureCellKey :
          \E to \in AttributeInput(attribute) : ChangeAttribute(index, attribute, to)
    \/ \E index \in IndexArrays, attribute \in PureCellKey :
          \E to \in AttributeInput(attribute) :
             ChangeAttributes(index, attribute, Uniform(index, to))

\* a run is explored while the caller has steps left
Next == calls < MaxCalls /\ (Commit \/ Undo \/ Redo) /\ UNCHANGED <<menuVars, dispatchVars, addressVars>>

Spec == Init /\ [][Next]_vars

CallerMutates ==
    \/ \E attribute \in PureCellKey : \E v \in AttributeInput(attribute) :
          CallerMutatesTo(attribute, v)
    \/ \E k \in 1 .. MaxBatch, index \in Idx : CallerMutatesIndex(k, index)

NextCaller == Next \/ (calls < MaxCalls /\ CallerMutates /\ UNCHANGED <<menuVars, dispatchVars, addressVars>>)

SpecCaller == Init /\ [][NextCaller]_vars

\* longer runs of fewer calls: a slot is cleared or a batch of cells gets the
\* type "aisle", and the log is walked back and forth
CommitReplay ==
    \/ \E index \in Idx : SwapCell(index, NullCell)
    \/ \E index \in IndexArrays : ChangeAttributes(index, "type", Uniform(index, "aisle"))

NextReplay == calls < MaxReplay /\ (CommitReplay \/ Undo \/ Redo) /\ UNCHANGED <<menuVars, dispatchVars, addressVars>>

SpecReplay == Init /\ [][NextReplay]_vars

\* the edit menu drives the engine
InitMenu ==
    /\ InitHistory
    /\ lockedCells \in SUBSET Idx
    /\ selectedInput = << >>
    /\ input = [property |-> NullRef, value |-> ""]
    /\ InitDispatcher
    /\ InitAddressing

NextMenu ==
    /\ calls < MaxCalls
    /\ \/ GenerateSeatLabels /\ UNCHANGED <<menuVars, addressVars>>
       \/ \E selection \in Selections : DeleteCells(selection)
       \/ (Undo \/ Redo) /\ UNCHANGED <<menuVars, addressVars>>
    /\ UNCHANGED dispatchVars

SpecMenu == InitMenu /\ [][NextMenu]_vars

\* the Apply button over layouts whose cells have a styleOverride or none
NextApply ==
    /\ calls < MaxCalls
    /\ \/ \E selection \in IndexArrays, selectedType \in CellType,
             cellStyleChanges \in StyleOverride :
             ApplyToMap(selection, selectedType, cellStyleChanges)
       \/ Undo
       \/ Redo
    /\ UNCHANGED <<menuVars, dispatchVars, addressVars>>

InitApply ==
    /\ InitLayout(LayoutCell \cup {[Seat EXCEPT !.styleOverride = NoStyle]})
    /\ lockedCells = {}
    /\ selectedInput = << >>
    /\ input = [property |-> NullRef, value |-> ""]
    /\ InitDispatcher
    /\ InitAddressing

SpecApply == InitApply /\ [][NextApply]_vars

\* the edit menu after its construction: cells are selected, elements
\* clicked, keys pressed and text typed, the input loses the focus
NextEdit ==
    /\ events < MaxEvents
    /\ events' = events + 1
    /\ \/ \E key \in {"Enter", "Escape", "Tab"} :
             /\ KeyDown(key)
             /\ pressed' = [key |-> key, property |-> input.property,
                            value |-> input.value]
       \/ /\ \/ \E cellIndexes \in Selections \cup {<<Beyond>>} :
                   SelectCells(cellIndexes)
             \/ \E drawn \in RenderRefs(elements) : HandleClickCollisions(drawn.reference)
             \/ HandleInputChange("red")
             \/ UnselectInput
          /\ pressed' = [key |-> "none", property |-> NullRef, value |-> ""]
    /\ calls' <= MaxApplied
    /\ UNCHANGED <<collisions, activeClickCollisions, activeHoverCollisions, listeners,
                   dragStart, dragLatest, mouseButtonsDown, notified, gesture, dropped,
                   delivered>>

\* the constructor ends in unSelectCell(); the first slot is locked
InitEdit ==
    /\ InitLayout({NullCell, [Seat EXCEPT !.styleOverride = NoStyle]})
    /\ lockedCells = {0}
    /\ selectedInput = << >>
    /\ input = [property |-> NullRef, value |-> ""]
    /\ InitDispatcher
    /\ elements = MenuElements(<< >>)
    /\ allRefs = << >>
    /\ lookup = "none"
    /\ asked = << >>
    /\ resolved = NullRef
    /\ following = << >>

SpecEdit == InitEdit /\ [][NextEdit]_vars

\* the dispatcher on its own, next to an engine of an empty layout

InitDispatch == Init /\ constructed = [k \in Idx |-> NullCell]

NextDispatch ==
    /\ events < MaxEvents
    /\ events' = events + 1
    /\ \/ \E type \in ListenerType : AddEventListener(type)
       \/ \E cs \in RegionLists : RegisterCollisions(cs)
       \/ \E button \in Buttons, p \in Point : MouseDown(button, p.x, p.y)
       \/ \E p \in Point : MouseMove(p.x, p.y)
       \/ \E button \in Buttons, p \in Point : MouseUp(button, p.x, p.y)
       \/ \E p \in Point : LeftClick(p.x, p.y)
    /\ UNCHANGED <<historyVars, menuVars, addressVars, delivered, pressed>>

SpecDispatch == InitDispatch /\ [][NextDispatch]_vars

\* downs and ups of several buttons in any order
NextButtons ==
    /\ events < MaxEvents
    /\ events' = events + 1
    /\ \/ \E button \in ButtonIds, p \in Point : MouseDown(button, p.x, p.y)
       \/ \E button \in ButtonIds, p \in Point : MouseUp(button, p.x, p.y)
    /\ UNCHANGED <<historyVars, menuVars, addressVars, delivered, pressed>>

SpecButtons == InitDispatch /\ [][NextButtons]_vars

\* a drag listener over one gesture: a mousedown and the mousemoves after it
RECURSIVE DeliveredTo(_, _)
DeliveredTo(received, l) ==
    IF received = << >> THEN [x |-> 0, y |-> 0]
    ELSE LET rest == DeliveredTo(Tail(received), l)
             call == Head(received)
         IN  IF call.type = "drag" /\ call.listener = l
             THEN [x |-> rest.x + call.diffX, y |-> rest.y + call.diffY]
             ELSE rest

NextDrag ==
    /\ events < MaxEvents
    /\ events' = events + 1
    /\ \/ AddEventListener("drag") /\ delivered' = delivered
       \/ \E p \in Point :
             /\ MouseDown(LEFT, p.x, p.y)
             /\ delivered' = [heard |-> listeners.drag >= 1, x |-> 0, y |-> 0]
       \/ \E p \in Point :
             /\ MouseMove(p.x, p.y)
             /\ delivered' = [delivered EXCEPT
                                 !.x = @ + DeliveredTo(notified'.drag, 1).x,
                                 !.y = @ + DeliveredTo(notified'.drag, 1).y]
    /\ UNCHANGED <<historyVars, menuVars, addressVars, pressed>>

SpecDrag == InitDispatch /\ [][NextDrag]_vars

\* Tab navigation over the inputs of a menu, alone and in groups
InitNext ==
    /\ InitHistory
    /\ constructed = [k \in Idx |-> NullCell]
    /\ lockedCells = {}
    /\ selectedInput = << >>
    /\ input = [property |-> NullRef, value |-> ""]
    /\ InitDispatcher
    /\ elements \in ElementTrees({"input", "label", "group"}, {"input"}, MaxElements)
    /\ allRefs \in Sort(AvailableRefs(elements) \o GroupedRefs(elements, 0))
    /\ lookup = "none"
    /\ asked = << >>
    /\ resolved = NullRef
    /\ following = << >>

NextNext ==
    /\ \E ref \in Addresses \cup Malformed : GetNextInputRef(ref)
    /\ UNCHANGED <<historyVars, menuVars, dispatchVars>>

SpecNext == InitNext /\ [][NextNext]_vars

\* addresses resolved in menus short enough for the sort to have one outcome
InitResolve ==
    /\ InitHistory
    /\ constructed = [k \in Idx |-> NullCell]
    /\ lockedCells = {}
    /\ selectedInput = << >>
    /\ input = [property |-> NullRef, value |-> ""]
    /\ InitDispatcher
    /\ elements \in ElementTrees({"input", "hselect", "label", "group"},
                                 {"input", "hselect", "label"}, MaxElements - 1)
    /\ allRefs \in Sort(AvailableRefs(elements) \o GroupedRefs(elements, 0))
    /\ lookup = "none"
    /\ asked = << >>
    /\ resolved = NullRef
    /\ following = << >>

NextResolve ==
    /\ \E ref \in RefStrings : GetInputByRef(ref)
    /\ UNCHANGED <<historyVars, menuVars, dispatchVars>>

SpecResolve == InitResolve /\ [][NextResolve]_vars

\* calls that name the slot past the end of the grid
CommitBeyond ==
    \/ \E to \in LayoutCell : SwapCell(Beyond, to)
    \/ \E index \in BeyondArrays, to \in LayoutCell : SwapCells(index, Uniform(index, to))
    \/ \E attribute \in PureCellKey :
          \E to \in AttributeInput(attribute) : ChangeAttribute(Beyond, attribute, to)
    \/ \E index \in BeyondArrays, attribute \in PureCellKey :
          \E to \in AttributeInput(attribute) :
             ChangeAttributes(index, attribute, Uniform(index, to))

NextBeyond == calls < MaxCalls /\ (CommitBeyond \/ Undo \/ Redo) /\ UNCHANGED <<menuVars, dispatchVars, addressVars>>

SpecBeyond == Init /\ [][NextBeyond]_vars

\* batched calls whose new-values array is one shorter than the index array
CommitShorter ==
    \/ \E index \in IndexArrays, to \in LayoutCell : SwapCells(index, Shorter(index, to))
    \/ \E index \in IndexArrays, attribute \in PureCellKey :
          \E to \in AttributeInput(attribute) :
             ChangeAttributes(index, attribute, Shorter(index, to))

NextShorter == calls < MaxCalls /\ (CommitShorter \/ Undo \/ Redo) /\ UNCHANGED <<menuVars, dispatchVars, addressVars>>

SpecShorter == Init /\ [][NextShorter]_vars

\* ------------------------------------------------------------ views
Grid == GridVal(cells, heap)

TypeOK ==
    /\ cells \in [Slots -> Ref \cup {NullRef, Hole}]
    /\ heap \in [Ref -> PureCell \cup {Free}]
    /\ \A k \in Idx : cells[k] # NullRef => heap[cells[k]] # Free
    /\ i \in 0 .. MaxLog
    /\ Len(history) <= MaxLog

\* what the object behind a reference reads as
Deref(h, r) == IF r = NullRef THEN NullCell ELSE h[r]

\* the became side of one entry applied to a grid of values
RECURSIVE BecameOnto(_, _, _, _)
BecameOnto(g, h, entry, k) ==
    IF k > Len(entry.index)
    THEN g
    ELSE LET at == entry.index[k]
             g1 == IF entry.action \in {"swappedCell", "swappedCells"}
                   THEN [g EXCEPT ![at] = Deref(h, entry.became[k])]
                   ELSE IF g[at] = NullCell
                   THEN g
                   ELSE [g EXCEPT ![at][entry.attribute] = entry.becameValue[k]]
         IN  BecameOnto(g1, h, entry, k + 1)

\* the grid g with the became sides of the first p entries of hist applied
RECURSIVE Replay(_, _, _, _)
Replay(g, h, hist, p) ==
    IF p = 0 THEN g ELSE BecameOnto(Replay(g, h, hist, p - 1), h, hist[p], 1)

Batched == {"swappedCells", "changeAttributes"}

\* the log with every reference replaced by the value behind it
LogVal ==
    [p \in 1 .. Len(history) |->
        [action |-> history[p].action, index |-> history[p].index,
         attribute |-> history[p].attribute,
         was |-> [k \in 1 .. Len(history[p].was) |-> Deref(heap, history[p].was[k])],
         became |-> [k \in 1 .. Len(history[p].became) |-> Deref(heap, history[p].became[k])],
         wasValue |-> history[p].wasValue, becameValue |-> history[p].becameValue]]

\* ------------------------------------------------------------ claims

\* C1: after N commits on non-empty targets, each passing the current value
\* as the old value, N undos leave every slot equal to its value before the
\* first commit.
C1_UndoRestoresConstructed ==
    (script.phase = "undos" /\ script.u = script.n /\ script.ok) => Grid = constructed

\* C2: after N commits, N undos and then N redos leave every slot equal to
\* its value right after the N-th commit, with the cursor back at N.
C2_RedoRestoresPost ==
    (script.phase = "redos" /\ script.r = script.n) => (Grid = script.post /\ i = script.n)

\* the entries the claim counts as surviving a commit made after u undos
Surviving == SubSeq(history, 1, script.n - script.u) \o <<history[Len(history)]>>

\* C3: after N commits, k undos (1 <= k < N) and one new commit, the k undone
\* entries are gone from the log, and whatever undo and redo follow, the grid
\* is the replay of a prefix of the retained entries followed by the new one.
C3_BranchDiscarded ==
    (script.phase = "branch" /\ script.ok) =>
        /\ Len(history) = script.n - script.u + 1
        /\ \E p \in 0 .. Len(Surviving) : Grid = Replay(constructed, heap, Surviving, p)

\* C4: a commit made while the cursor is c leaves the log holding its first
\* c entries followed by the new entry, and sets the cursor to c + 1.
C4_CommitTruncatesToCursor ==
    [][(Commit /\ ~threw') =>
          /\ Len(history') = i + 1
          /\ SubSeq(history', 1, i) = SubSeq(history, 1, i)
          /\ i' = i + 1]_vars

\* C5: in every reachable state the grid equals the constructed grid with the
\* became sides of log entries 0..cursor-1 applied in order.
C5_CursorCountsApplied == Grid = Replay(constructed, heap, history, i)

\* C6: changeAttributes with several indices, one of them an empty slot,
\* leaves every cell, the log and the cursor as before the call.
C6_BatchAtomic ==
    [][\A index \in IndexArrays, attribute \in PureCellKey :
          \A to \in AttributeInput(attribute) :
             (/\ ChangeAttributes(index, attribute, Uniform(index, to))
              /\ Len(index) > 1
              /\ \E k \in 1 .. Len(index) : cells[index[k]] = NullRef)
             => (Grid' = Grid /\ history' = history /\ i' = i)]_vars

\* a changeAttribute or changeAttributes call with an empty slot among its targets
AttributeCallOnEmptySlot ==
    \/ \E index \in Idx, attribute \in PureCellKey : \E to \in AttributeInput(attribute) :
          cells[index] = NullRef /\ ChangeAttribute(index, attribute, to)
    \/ \E index \in IndexArrays, attribute \in PureCellKey : \E to \in AttributeInput(attribute) :
          /\ \E k \in 1 .. Len(index) : cells[index[k]] = NullRef
          /\ ChangeAttributes(index, attribute, Uniform(index, to))

\* C7: changeAttribute(s) targeting an empty slot ends without an exception
\* and with the grid, the log and the cursor unchanged.
C7_EmptyTargetReported ==
    [][AttributeCallOnEmptySlot =>
          (~threw' /\ Grid' = Grid /\ history' = history /\ i' = i)]_vars

\* C8: a batched commit appends one entry; one undo restores all its targets
\* to their old values and one redo re-applies all the new values.
C8_BatchIsOneStep ==
    (/\ script.n = 1 /\ script.ok /\ script.phase \in {"commits", "undos", "redos"}
     /\ Len(history) >= 1 /\ history[1].action \in Batched) =>
        /\ Len(history) = 1
        /\ script.phase = "undos" => Grid = constructed
        /\ script.phase = "redos" => Grid = script.post

\* C9: no object held in a log entry's was or became side is the same object
\* as a live cell of the grid.
C9_NoAliasing ==
    \A p \in 1 .. Len(history) : \A k \in Idx :
        cells[k] # NullRef =>
            cells[k] \notin (SeqRange(history[p].was) \cup SeqRange(history[p].became))

\* C10: after swapCell or swapCells returned, the caller mutating its own
\* arguments changes neither the grid nor what undo or redo will write.
C10_CallerCannotCorrupt ==
    [][CallerMutates => (Grid' = Grid /\ LogVal' = LogVal)]_vars


\* C14: undo and redo on an empty log, undo with the cursor at 0 and redo with
\* the cursor at the log's length leave the grid, the log and the cursor
\* unchanged and do not throw.
AtBoundary ==
    \/ Undo /\ (Len(history) = 0 \/ i = 0)
    \/ Redo /\ (Len(history) = 0 \/ i = Len(history))

C14_BoundaryIsNoOp ==
    [][AtBoundary => Grid' = Grid /\ history' = history /\ i' = i /\ ~threw']_vars

\* C15: the cursor always lies between 0 and the log's length, so an undo with
\* the cursor above 0 and a redo with the cursor below the length find an entry.
C15_CursorInRange == i >= 0 /\ i <= Len(history)

\* an undo has left the cursor inside a log of two entries: both an undo and
\* a redo have an entry to read
C15_CursorInside == Len(history) >= 2 /\ i = 1 /\ script.phase = "undos"


\* C11: undo and redo of a changeAttributes entry write all of its targets or
\* none: when a target slot is empty, no cell is modified.
ReadByUndo == IF i # 0 THEN i ELSE 1
ReadByRedo == i + 1
HasEmptyTarget(entry) ==
    /\ entry.action = "changeAttributes"
    /\ \E k \in 1 .. Len(entry.index) : cells[entry.index[k]] = NullRef

C11_EntryAllOrNone ==
    [][(\/ Undo /\ ReadByUndo <= Len(history) /\ HasEmptyTarget(history[ReadByUndo])
        \/ Redo /\ ReadByRedo <= Len(history) /\ HasEmptyTarget(history[ReadByRedo]))
       => Grid' = Grid]_vars


\* C12: a call that names an index outside 0 .. x*y-1 is skipped: the grid
\* keeps its construction-time length and content, and the log gains no entry.
C12_OutOfRangeSkipped ==
    [][CommitBeyond => /\ CellsLength(cells') = NumCells
                       /\ Grid' = Grid
                       /\ history' = history
                       /\ i' = i]_vars

\* C13: a changeAttributes or swapCells call whose values array is shorter
\* than its index array is not applied: grid, log and cursor stay as they are.
C13_ShortArraysNotApplied ==
    [][CommitShorter => Grid' = Grid /\ history' = history /\ i' = i]_vars


\* C16: every change the edit menu makes to cell content happens inside an
\* operation of the history engine: the menu's own statements leave every
\* cell of the grid as it was when generateSeatLabels calls the engine.
C16_MenuWritesThroughHistory ==
    [][GenerateSeatLabels =>
          GridVal(cells, WriteLabels(cells, heap, SeatsFrom(cells, heap, 0), 1)) = Grid]_vars


\* ------------------------------------------------ dispatcher properties
\* the containment test: inclusive bounds on all four edges
Inside(c, p) ==
    /\ c.x <= p.x /\ p.x <= c.x + c.width
    /\ c.y <= p.y /\ p.y <= c.y + c.height
Containing(p) == SelectSeq(collisions, LAMBDA c : Inside(c, p))

\* how often listener l of a type was called, and with which arguments
CallsTo(received, type, l) ==
    SelectSeq(received, LAMBDA call : call.type = type /\ call.listener = l)
Collisions(received) == [k \in 1 .. Len(received) |-> received[k].collision]

\* C17: on an up at the anchor of the latest down, every click listener is
\* called exactly once for each registered region that contains the point
\* (all of the overlapping ones) and for no other region.
C17_ClickOncePerRegion ==
    [][\A button \in Buttons, p \in Point :
          MouseUp(button, p.x, p.y) /\ p = dragStart =>
             /\ \A l \in 1 .. listeners.click :
                   Collisions(CallsTo(notified'.collision, "click", l)) = Containing(p)
             /\ Len(notified'.collision) = listeners.click * Len(Containing(p))]_vars

\* a down at (1, 1) and an up there, with two regions under the point
C17_TwoRegionsClicked ==
    /\ gesture = "tapped"
    /\ dragStart = [x |-> 1, y |-> 1]
    /\ activeClickCollisions = << >>
    /\ listeners.click >= 1
    /\ Len(Containing(dragStart)) >= 2
    /\ Len(notified.collision) = listeners.click * Len(Containing(dragStart))
    /\ notified.collision[1].type = "click"

\* C18: a down at P followed by an up at the same P calls no drag-end
\* listener, whatever regions are registered.
C18_NoDragEndOnClick ==
    [][\A button \in Buttons, p \in Point :
          MouseUp(button, p.x, p.y) /\ gesture = "down" /\ p = dragStart =>
             notified'.drag = << >>]_vars

\* C19: after a down at A and a move to B # A every drag listener was called
\* with the delta B - A; the up at B then calls every drag-end listener
\* exactly once and no click listener.
C19_DragThenDragEnd ==
    [][\A button \in Buttons, p \in Point :
          /\ MouseMove(p.x, p.y) /\ gesture = "down" /\ p # dragStart =>
                \A l \in 1 .. listeners.drag :
                   /\ Len(CallsTo(notified'.drag, "drag", l)) = 1
                   /\ CallsTo(notified'.drag, "drag", l)[1].diffX = p.x - dragStart.x
                   /\ CallsTo(notified'.drag, "drag", l)[1].diffY = p.y - dragStart.y
          /\ MouseUp(button, p.x, p.y) /\ gesture = "moved" /\ p = dragLatest
                /\ p # dragStart =>
                /\ \A l \in 1 .. listeners.dragend :
                      Len(CallsTo(notified'.drag, "dragend", l)) = 1
                /\ notified'.collision = << >>]_vars

\* a down, a move elsewhere and an up there, over a region, with a drag-end
\* listener called
C19_Dragged ==
    /\ gesture = "dragged"
    /\ dragLatest # dragStart
    /\ Len(Containing(dragLatest)) >= 1
    /\ listeners.dragend >= 1
    /\ Len(notified.drag) = listeners.dragend
    /\ notified.drag[1].type = "dragend"
    /\ notified.drag[1].diffX = 0 /\ notified.drag[1].diffY = 0

\* C20: hover, the click on an up and leftClick use one containment test,
\* x <= px <= x + width and y <= py <= y + height.
C20_OneContainmentTest ==
    [][\A button \in Buttons, p \in Point :
          /\ MouseMove(p.x, p.y) => activeHoverCollisions' = Containing(p)
          /\ LeftClick(p.x, p.y) => activeClickCollisions' = Containing(p)
          /\ MouseUp(button, p.x, p.y) /\ p = dragStart /\ listeners.click >= 1 =>
                Collisions(CallsTo(notified'.collision, "click", 1)) = Containing(p)]_vars

\* the pointer rests on the far corner of a hovered region
C20_HoverOnFarEdge ==
    /\ gesture \in {"moved", "other"}
    /\ \E k \in 1 .. Len(activeHoverCollisions) :
          /\ activeHoverCollisions[k].width > 0
          /\ dragLatest.x = activeHoverCollisions[k].x + activeHoverCollisions[k].width
          /\ dragLatest.y = activeHoverCollisions[k].y + activeHoverCollisions[k].height

\* C21: on every move each hover listener is called exactly once for each
\* registered region that contains the point and, when no region contains
\* it, exactly once with the sentinel (reference -1): a move always gives
\* every hover listener at least one call.
C21_HoverOncePerRegionOrSentinel ==
    [][\A p \in Point :
          MouseMove(p.x, p.y) =>
             \A l \in 1 .. listeners.hover :
                /\ Collisions(CallsTo(notified'.collision, "hover", l)) =
                      IF Containing(p) = << >> THEN <<Sentinel>> ELSE Containing(p)
                /\ Len(CallsTo(notified'.collision, "hover", l)) >= 1
                /\ Len(notified'.collision) =
                      listeners.hover * (IF Containing(p) = << >> THEN 1
                                         ELSE Len(Containing(p)))]_vars

\* a move to a point outside every registered region: the hover listener got
\* the sentinel
C21_SentinelOverEmptySpace ==
    /\ gesture \in {"moved", "other"}
    /\ collisions # << >>
    /\ Containing(dragLatest) = << >>
    /\ listeners.hover >= 1
    /\ Collisions(notified.collision) = <<Sentinel>>
    /\ notified.collision[1].type = "hover"
    /\ notified.collision[1].collision.reference = -1

\* C22: within one move every call of a drag listener comes before every
\* call of a hover listener, and the drag listeners are called only when the
\* position is not the previous latest position.
C22_DragBeforeHover ==
    [][\A p \in Point :
          MouseMove(p.x, p.y) =>
             /\ \A d \in 1 .. Len(notified'.drag), h \in 1 .. Len(notified'.collision) :
                   notified'.drag[d].at < notified'.collision[h].at
             /\ p = dragLatest => notified'.drag = << >>
             /\ notified'.drag # << >> => p # dragLatest]_vars

\* a move to a new position with a drag listener and a hover listener: the
\* drag listener was called first
C22_DraggedThenHovered ==
    /\ gesture \in {"moved", "other"}
    /\ listeners.drag >= 1 /\ listeners.hover >= 1
    /\ Len(notified.drag) = listeners.drag
    /\ notified.drag[1].type = "drag"
    /\ notified.drag[1].diffX # 0
    /\ Len(notified.collision) >= 1
    /\ notified.collision[1].type = "hover"
    /\ notified.drag[Len(notified.drag)].at < notified.collision[1].at

\* C23: after registerCollisions(R) the hit tests of hover, of the click on
\* an up and of leftClick look at the regions of R and at no other: R is the
\* registry, every region a listener is told of is one of R, and no region
\* of an earlier registration is reported unless R holds it too.
C23_OnlyLatestRegistration ==
    [][/\ \A cs \in RegionLists : RegisterCollisions(cs) => collisions' = cs
       /\ \A k \in 1 .. Len(notified'.collision) :
             /\ notified'.collision[k].collision \notin dropped'
             /\ notified'.collision[k].collision \in SeqRange(collisions') \cup {Sentinel}
       /\ \A button \in Buttons, p \in Point :
             LET latest == {c \in SeqRange(collisions') : Inside(c, p)}
             IN  /\ MouseMove(p.x, p.y) => SeqRange(activeHoverCollisions') = latest
                 /\ LeftClick(p.x, p.y) => SeqRange(activeClickCollisions') = latest
                 /\ MouseUp(button, p.x, p.y) /\ p = dragStart /\ listeners.click >= 1 =>
                       SeqRange(Collisions(notified'.collision)) = latest]_vars

\* a region of an earlier registration, left out of the latest one, contains
\* the point of a hit test that told a listener of another region or of none
C23_DroppedRegionUnderPointer ==
    /\ \E c \in dropped : Inside(c, dragLatest)
    /\ collisions # << >>
    /\ gesture \in {"moved", "other"}
    /\ Len(notified.collision) >= 1
    /\ notified.collision[1].type = "hover"

\* C24: after any interleaving of downs and ups of several buttons the list
\* of held buttons has no button twice and holds exactly the buttons that
\* had a down not yet followed by an up (a down adds its button, an up takes
\* its button away, nothing else changes the set); an up for a button that
\* is not held leaves the list as it was.
C24_HeldButtonsExact ==
    [][/\ Len(mouseButtonsDown') = Cardinality(SeqRange(mouseButtonsDown'))
       /\ \A button \in ButtonIds, p \in Point :
             /\ MouseDown(button, p.x, p.y) =>
                   SeqRange(mouseButtonsDown') = SeqRange(mouseButtonsDown) \cup {button}
             /\ MouseUp(button, p.x, p.y) =>
                   /\ SeqRange(mouseButtonsDown') = SeqRange(mouseButtonsDown) \ {button}
                   /\ button \notin SeqRange(mouseButtonsDown) =>
                         mouseButtonsDown' = mouseButtonsDown]_vars

\* three buttons went down, not in the order of their ids, and the one that
\* went down last came up again
C24_TwoHeldAfterRelease ==
    /\ gesture = "tapped"
    /\ Len(mouseButtonsDown) = 2
    /\ mouseButtonsDown[1] > mouseButtonsDown[2]

\* C25: leftClick(x, y) calls every click listener once for each registered
\* region that contains (x, y), each time with the button list [LEFT]; it
\* calls no hover, drag or drag-end listener and leaves the held buttons,
\* the drag anchor and the latest position as they were.
C25_LeftClickOnlyClicks ==
    [][\A p \in Point :
          LeftClick(p.x, p.y) =>
             /\ \A l \in 1 .. listeners.click :
                   Collisions(CallsTo(notified'.collision, "click", l)) = Containing(p)
             /\ Len(notified'.collision) = listeners.click * Len(Containing(p))
             /\ \A k \in 1 .. Len(notified'.collision) :
                   /\ notified'.collision[k].type = "click"
                   /\ notified'.collision[k].buttons = <<LEFT>>
             /\ notified'.drag = << >>
             /\ mouseButtonsDown' = mouseButtonsDown
             /\ dragStart' = dragStart
             /\ dragLatest' = dragLatest]_vars

\* a leftClick on a region away from the pointer, with no button held: the
\* click listener got [LEFT]
C25_LeftClickAwayFromPointer ==
    /\ activeClickCollisions # << >>
    /\ ~Inside(activeClickCollisions[1], dragLatest)
    /\ mouseButtonsDown = << >>
    /\ listeners.click >= 1
    /\ Len(notified.collision) = listeners.click * Len(activeClickCollisions)
    /\ notified.collision[1].type = "click"
    /\ notified.collision[1].buttons = <<LEFT>>

\* C26: every top-level address getNextInputRef returns is the position of a
\* top-level element of type input: it never returns the address of a
\* top-level element that is no input (with inputs at 0 and 2 and a group
\* at 1 the address after "0" is "2").
C26_NextNamesTopLevelInputs ==
    lookup = "next" /\ following # << >>
       /\ parseRef(following[1]).groupIndex = NoGroup =>
          /\ parseRef(following[1]).itemIndex < Len(elements)
          /\ elements[parseRef(following[1]).itemIndex + 1].type = "input"

\* C27: in the order getNextInputRef walks, every top-level address comes
\* before every grouped address, the top-level addresses are in increasing
\* position and the grouped addresses in increasing (groupIndex, itemIndex)
\* order.
C27_TopLevelThenGrouped ==
    lookup = "next" =>
       \A j, k \in 1 .. Len(allRefs) :
          j < k =>
             LET a == parseRef(allRefs[j])
                 b == parseRef(allRefs[k])
             IN  /\ ~(a.groupIndex # NoGroup /\ b.groupIndex = NoGroup)
                 /\ a.groupIndex = NoGroup /\ b.groupIndex = NoGroup =>
                       a.itemIndex < b.itemIndex
                 /\ a.groupIndex # NoGroup /\ b.groupIndex # NoGroup =>
                       \/ a.groupIndex < b.groupIndex
                       \/ a.groupIndex = b.groupIndex /\ a.itemIndex < b.itemIndex

\* the addresses that n applications of getNextInputRef give, one after the
\* other, from ref on
RECURSIVE Walk(_, _)
Walk(ref, n) ==
    IF n = 0 \/ getNextInputRef(allRefs, ref) = << >> THEN << >>
    ELSE getNextInputRef(allRefs, ref) \o Walk(getNextInputRef(allRefs, ref)[1], n - 1)

\* C28: for an address of the list getNextInputRef returns the address right
\* after it, and the first address for the last one, so that as many
\* applications as the list is long visit every address of the list exactly
\* once and end at the start; for an address that is not in the list it
\* returns null.
C28_NextIsCyclic ==
    lookup = "next" =>
       IF asked \in SeqRange(allRefs)
       THEN /\ \E k \in 1 .. Len(allRefs) :
                  /\ allRefs[k] = asked
                  /\ following = <<allRefs[(k % Len(allRefs)) + 1]>>
            /\ Len(Walk(asked, Len(allRefs))) = Len(allRefs)
            /\ SeqRange(Walk(asked, Len(allRefs))) = SeqRange(allRefs)
            /\ Cardinality(SeqRange(Walk(asked, Len(allRefs)))) = Len(allRefs)
            /\ Walk(asked, Len(allRefs))[Len(allRefs)] = asked
       ELSE following = << >>

\* the last address of a list of three or more was asked for: the first came
\* back
C28_WrappedAround ==
    /\ lookup = "next"
    /\ Len(allRefs) >= 3
    /\ asked = allRefs[Len(allRefs)]
    /\ following = <<allRefs[1]>>

\* C29: getInputByRef returns the top-level element at itemIndex for an
\* address without a group part; for an address with one it returns the
\* element at itemIndex of the element at groupIndex, and only when that is
\* a group; for an index past the end and for a groupIndex that names no
\* group it returns none (null or undefined).
C29_ResolveByIndices ==
    lookup = "resolve" =>
       \A index \in 0 .. MaxElements, subindex \in 0 .. MaxLeaves :
          /\ asked = IndexToString(index) =>
                IF index < Len(elements) THEN resolved = elements[index + 1].id
                ELSE resolved \in {NullRef, Hole}
          /\ asked = IndexToString(index) \o <<"_">> \o IndexToString(subindex) =>
                IF /\ index < Len(elements)
                   /\ elements[index + 1].type = "group"
                   /\ subindex < Len(elements[index + 1].elements)
                THEN resolved = elements[index + 1].elements[subindex + 1].id
                ELSE resolved \in {NullRef, Hole}

\* the second element of a group at position 1 was resolved
C29_LeafResolved ==
    /\ lookup = "resolve"
    /\ asked = <<"1", "_", "1">>
    /\ Len(elements) = 2
    /\ elements[1].type # "group"
    /\ elements[2].type = "group"
    /\ Len(elements[2].elements) = 2
    /\ resolved = elements[2].elements[2].id

\* C30: the address render gives an element ("i" for the element at position
\* i, "i_j" for element j of the group at i) resolves through getInputByRef
\* to that element, and so does the address followed by '-' or '+', for
\* which parseRef reports that control symbol.
C30_RenderedAddressRoundTrip ==
    lookup = "resolve" =>
       \A r \in RenderRefs(elements) :
          LET address == IF EndsWith(r.reference, "-") \/ EndsWith(r.reference, "+")
                         THEN SliceLast(r.reference) ELSE r.reference
          IN  /\ asked = address =>
                    resolved = r.id /\ parseRef(asked).controlSymbol = NULL
              /\ asked = address \o <<"-">> =>
                    resolved = r.id /\ parseRef(asked).controlSymbol = "-"
              /\ asked = address \o <<"+">> =>
                    resolved = r.id /\ parseRef(asked).controlSymbol = "+"

\* the reference of the right arrow of an hselect that follows a label in a
\* group was resolved
C30_ArrowAfterLabelResolved ==
    /\ lookup = "resolve"
    /\ asked = <<"1", "_", "1", "+">>
    /\ Len(elements) = 2
    /\ elements[2].type = "group"
    /\ Len(elements[2].elements) = 2
    /\ elements[2].elements[1].type = "label"
    /\ elements[2].elements[2].type = "hselect"
    /\ resolved = elements[2].elements[2].id
    /\ [reference |-> asked, id |-> resolved] \in RenderRefs(elements)

\* a string of the grammar of addresses: digits, or digits '_' digits, with
\* at most one '-' or '+' after them
WellFormed(str) ==
    LET rest == IF EndsWith(str, "-") \/ EndsWith(str, "+") THEN SliceLast(str) ELSE str
        AllDigits(part) == Len(part) >= 1 /\ \A k \in 1 .. Len(part) : IsDigit(part[k])
    IN  \/ AllDigits(rest)
        \/ \E k \in 1 .. Len(rest) :
              /\ rest[k] = "_"
              /\ AllDigits(SubSeq(rest, 1, k - 1))
              /\ AllDigits(SubSeq(rest, k + 1, Len(rest)))

\* C31: for every string that is not digits, or digits '_' digits, with at
\* most one '-' or '+' after them, parseRef returns null and getInputByRef
\* returns none.
C31_MalformedResolvesToNone ==
    lookup = "resolve" /\ ~WellFormed(asked) =>
       /\ parseRef(asked).isNull
       /\ resolved \in {NullRef, Hole}

\* C34: generateSeatLabels commits its renaming with the names the seats had
\* before the call as old values (so that the undo that follows gives every
\* seat its name back).
C34_LabelsKeepOldNames ==
    [][GenerateSeatLabels =>
          LET index == SeatsFrom(cells, heap, 0)
          IN  /\ history'[i'].index = index
              /\ history'[i'].wasValue =
                    [k \in 1 .. Len(index) |-> heap[cells[index[k]]].name]]_vars

\* C36: deleteCells with a selection that holds no cell to delete (no
\* selection, or locked cells only) leaves the log and the cursor as they
\* were: no empty step is added and nothing that could be redone is lost.
C36_NothingToDeleteNoEntry ==
    [][\A selection \in Selections :
          DeleteCells(selection) /\ Unlocked(selection) = << >> =>
             history' = history /\ i' = i]_vars

\* C40: deleteCells leaves the slot of every locked index as it was, for
\* any selection of locked and unlocked indices, and makes every unlocked
\* selected slot empty.
C40_DeleteSkipsLocked ==
    [][\A selection \in Selections :
          DeleteCells(selection) =>
             \A k \in Idx :
                /\ k \in lockedCells => Grid'[k] = Grid[k]
                /\ k \in SeqRange(selection) \ lockedCells => Grid'[k] = NullCell]_vars

\* a seat at 1 was deleted while the seat at 0, locked, stayed
C40_LockedSeatKept ==
    /\ lockedCells = {0}
    /\ i >= 1
    /\ history[i].action = "swappedCells"
    /\ history[i].index = <<1>>
    /\ Deref(heap, history[i].was[1]) # NullCell
    /\ Grid[0] # NullCell
    /\ Grid[1] = NullCell

\* C33: an up calls the click listeners only if the pointer did not move
\* between the down and the up: after a down at P and a move away from P no
\* up, not even one back at P, produces a click.
C33_NoClickAfterMove ==
    [][\A button \in Buttons, p \in Point :
          MouseUp(button, p.x, p.y) /\ gesture = "moved" /\ dragLatest # dragStart =>
             notified'.collision = << >>]_vars

\* C39: on an up the click and the drag-end listeners are called with a held
\* list that still has the released button in it; the button leaves the list
\* only after the listeners of that up have run.
C39_ReleasedAfterListeners ==
    [][\A button \in Buttons, p \in Point :
          MouseUp(button, p.x, p.y) /\ button \in SeqRange(mouseButtonsDown) =>
             /\ \A k \in 1 .. Len(notified'.collision) :
                   button \in SeqRange(notified'.collision[k].buttons)
             /\ \A k \in 1 .. Len(notified'.drag) :
                   button \in SeqRange(notified'.drag[k].buttons)
             /\ button \notin SeqRange(mouseButtonsDown')]_vars

\* the left button came up after a drag: the drag-end listener was handed a
\* list with the button in it, and the list is empty now
C39_DragEndSawButton ==
    /\ gesture = "dragged"
    /\ Len(notified.drag) >= 1
    /\ notified.drag[1].type = "dragend"
    /\ notified.drag[1].buttons = <<LEFT>>
    /\ mouseButtonsDown = << >>

\* C38: after a down at A and any number of moves, the deltas a drag listener
\* was handed add up, in x and in y, to the latest position minus A; and a
\* move to the position of the event before it calls no drag listener.
C38_DeltasSumToDisplacement ==
    [][/\ delivered'.heard =>
             /\ delivered'.x = dragLatest'.x - dragStart'.x
             /\ delivered'.y = dragLatest'.y - dragStart'.y
       /\ \A p \in Point :
             MouseMove(p.x, p.y) /\ p = dragLatest => notified'.drag = << >>]_vars

\* a listener heard a gesture of a down, a move away and a move back to the
\* anchor: the deltas it was handed cancel
C38_ThereAndBack ==
    /\ delivered = [heard |-> TRUE, x |-> 0, y |-> 0]
    /\ gesture = "other"
    /\ dragLatest = dragStart
    /\ Len(notified.drag) = 1
    /\ notified.drag[1].diffX # 0

\* C35: applyToMap over a selection that is not empty never throws, whatever
\* the selected slots hold (nothing, a cell with a styleOverride, a cell
\* without one); it appends one swappedCells entry over the selected indexes
\* whose was side holds what the slots held, so that one undo restores them.
C35_ApplyNeverThrows ==
    [][\A selection \in IndexArrays, selectedType \in CellType,
          cellStyleChanges \in StyleOverride :
          ApplyToMap(selection, selectedType, cellStyleChanges) =>
             /\ ~threw'
             /\ i' = Len(history')
             /\ history'[i'].action = "swappedCells"
             /\ history'[i'].index = selection
             /\ \A k \in 1 .. Len(selection) :
                   Deref(heap', history'[i'].was[k]) = Grid[selection[k]]]_vars

\* C32: Escape, pressed while an input is edited, clears state.selectedInput,
\* state.input.property and state.input.value and leaves the grid, the log
\* and the cursor as they were, whatever was typed.
C32_EscapeDiscardsEdit ==
    [][KeyDown("Escape") /\ selectedInput # << >> =>
          /\ selectedInput' = << >>
          /\ input' = [property |-> NullRef, value |-> ""]
          /\ cells' = cells /\ heap' = heap
          /\ history' = history /\ i' = i]_vars

\* Escape came while text was typed into an input, after a change was
\* applied to the grid: the input state is cleared, the log has its entry
C32_EscapedWhileTyping ==
    /\ pressed.key = "Escape"
    /\ pressed.property # NullRef
    /\ pressed.value = "red"
    /\ selectedInput = << >>
    /\ input.value = ""
    /\ Len(history) = 1 /\ i = 1

\* C37: after every operation of the edit menu state.selectedInput is null or
\* an address that getInputByRef resolves, in the elements of that moment, to
\* an element of type input; so also after the elements were built anew.
C37_SelectedInputResolves ==
    selectedInput # << >> =>
       TypeOf(elements, getInputByRef(elements, selectedInput[1])) = "input"

====
